---- MODULE Spec2Model ----
(***************************************************************************)
(* PRISM scoring engine (sector_analysis_app/src/prism_scoring.py,         *)
(* scoring.py, prism_allocation.py, prism_sector_constituents.py and       *)
(* prism_data_loader.py): the normalizer, the firm score, the sector       *)
(* aggregator, the structural / market-behavior / top-down calculators,    *)
(* the composite scorer, the holding alignment, the portfolio weighted     *)
(* score, the weight backsolve and the constituents directory.             *)
(*                                                                         *)
(* Numbers.  Python floats are modelled as exact rationals in lowest       *)
(* terms, [k |-> "num", n |-> numerator, d |-> denominator > 0]; the two   *)
(* non-numbers the code distinguishes are None ([k |-> "none"]) and NaN    *)
(* ([k |-> "nan"]); a dictionary key that is not there is Absent.  Binary  *)
(* floating-point rounding error is outside the model.                     *)
(*                                                                         *)
(* State.  The calculators are functions called with arguments: op is the  *)
(* function being called, args its arguments, ret its result (Pending      *)
(* until the call has run).  data_cache is the cache directory of          *)
(* prism_sector_constituents.py, the one state that outlives a call;       *)
(* frame holds the locals of the retry loop of data.get_spy_and_etf.       *)
(***************************************************************************)
EXTENDS Integers, Sequences, FiniteSets

VARIABLES op, args, ret, data_cache, frame

vars == <<op, args, ret, data_cache, frame>>

Pending == [k |-> "pending", n |-> 0, d |-> 1]

(* data_cache: the files of the cache directory, by file name; a directory *)
(* without files is the empty function                                     *)
NoFiles == <<>>

(* frame: the local variables and the position of a call that runs in      *)
(* several steps; NoFrame for the calls that run in one                    *)
NoFrame == [pc |-> "none"]

---------------------------------------------------------------------------
(* Exact rational arithmetic                                               *)

IAbs(i) == IF i < 0 THEN -i ELSE i

RECURSIVE GCD(_, _)
GCD(a, b) == IF b = 0 THEN a ELSE GCD(b, a % b)

Rat(n, d) ==
    LET s == IF d < 0 THEN -1 ELSE 1
        g == GCD(IAbs(n), IAbs(d))
    IN  [k |-> "num", n |-> (s * n) \div g, d |-> (s * d) \div g]

Num(i) == [k |-> "num", n |-> i, d |-> 1]

None == [k |-> "none", n |-> 0, d |-> 1]
NaN == [k |-> "nan", n |-> 0, d |-> 1]
Absent == [k |-> "absent", n |-> 0, d |-> 1]

IsNum(x) == x.k = "num"
IsNaN(x) == x.k = "nan"
IsNone(x) == x.k = "none"

(* The one element of a singleton set.  The operators below take their     *)
(* operands through {operand}, so that an operand expression is evaluated  *)
(* once however often its value is used.                                   *)
The(S) == CHOOSE v \in S : TRUE

(* float arithmetic: NaN propagates; x / 0 is NaN (numpy-style, never      *)
(* reached by the code as written, whose divisions are all guarded).       *)
FAdd(x, y) ==
    The({IF IsNum(a) /\ IsNum(b) THEN Rat(a.n * b.d + b.n * a.d, a.d * b.d) ELSE NaN :
            a \in {x}, b \in {y}})

FSub(x, y) ==
    The({IF IsNum(a) /\ IsNum(b) THEN Rat(a.n * b.d - b.n * a.d, a.d * b.d) ELSE NaN :
            a \in {x}, b \in {y}})

FMul(x, y) ==
    The({IF IsNum(a) /\ IsNum(b) THEN Rat(a.n * b.n, a.d * b.d) ELSE NaN :
            a \in {x}, b \in {y}})

FDiv(x, y) ==
    The({IF IsNum(a) /\ IsNum(b) /\ b.n # 0 THEN Rat(a.n * b.d, a.d * b.n) ELSE NaN :
            a \in {x}, b \in {y}})

(* float comparisons: every comparison with NaN is False.                  *)
FLt(x, y) == \E a \in {x}, b \in {y} : IsNum(a) /\ IsNum(b) /\ a.n * b.d < b.n * a.d
FLe(x, y) == \E a \in {x}, b \in {y} : IsNum(a) /\ IsNum(b) /\ a.n * b.d <= b.n * a.d
FGt(x, y) == FLt(y, x)
FGe(x, y) == FLe(y, x)
FEq(x, y) == \E a \in {x}, b \in {y} : IsNum(a) /\ IsNum(b) /\ a.n * b.d = b.n * a.d

FAbs(x) == The({IF IsNum(a) THEN [a EXCEPT !.n = IAbs(a.n)] ELSE a : a \in {x}})

(* np.clip(v, lo, hi) = minimum(maximum(v, lo), hi); NaN stays NaN.        *)
NpClip(v, lo, hi) ==
    The({IF ~IsNum(a) THEN a
         ELSE IF FLt(a, lo)
              THEN (IF FGt(lo, hi) THEN hi ELSE lo)
              ELSE (IF FGt(a, hi) THEN hi ELSE a) : a \in {v}})

(* Python truthiness of a value: None and 0 are falsy, NaN is truthy.      *)
Truthy(x) == \E a \in {x} : (IsNum(a) /\ a.n # 0) \/ IsNaN(a)

(* round(x, 2), round(x, 1): to the nearest multiple of 1/10^p, a tie to   *)
(* the even multiple; round(NaN) is NaN.                                   *)
RoundTo(x, scale) ==
    The({IF ~IsNum(a) THEN a
         ELSE LET whole == a.n \div a.d
                  rem == a.n % a.d
                  q == (rem * scale) \div a.d
                  r2 == 2 * ((rem * scale) % a.d)
                  up == r2 > a.d \/ (r2 = a.d /\ (whole * scale + q) % 2 = 1)
              IN  Rat(whole * scale + q + (IF up THEN 1 ELSE 0), scale) : a \in {x}})

Round2(x) == RoundTo(x, 100)

InScoreRange(x) == IsNum(x) /\ FLe(Num(0), x) /\ FLe(x, Num(100))

---------------------------------------------------------------------------
(* prism_scoring.normalize                                                 *)

normalize_noclip(value, min_val, max_val, invert) ==
    The({IF IsNone(v) \/ IsNaN(v) THEN Num(50)
         ELSE LET normalized == IF FGt(max_val, min_val)
                                THEN FDiv(FMul(Num(100), FSub(v, min_val)),
                                          FSub(max_val, min_val))
                                ELSE Num(50)
              IN  IF invert THEN FSub(Num(100), normalized) ELSE normalized :
            v \in {value}})

normalize_noguard(value, min_val, max_val, invert) ==
    The({IF IsNone(v) \/ IsNaN(v) THEN Num(50)
         ELSE LET clipped == NpClip(v, min_val, max_val)
                  normalized == FDiv(FMul(Num(100), FSub(clipped, min_val)),
                                     FSub(max_val, min_val))
              IN  IF invert THEN FSub(Num(100), normalized) ELSE normalized :
            v \in {value}})

normalize_noinvert(value, min_val, max_val, invert) ==
    The({IF IsNone(v) \/ IsNaN(v) THEN Num(50)
         ELSE LET clipped == NpClip(v, min_val, max_val)
              IN  IF FGt(max_val, min_val)
                  THEN FDiv(FMul(Num(100), FSub(clipped, min_val)),
                            FSub(max_val, min_val))
                  ELSE Num(50) :
            v \in {value}})

(* lines 24-33                                                             *)
normalize(value, min_val, max_val, invert) ==
    The({IF IsNone(v) \/ IsNaN(v) THEN Num(50)
         ELSE LET clipped == NpClip(v, min_val, max_val)
                  normalized == IF FGt(max_val, min_val)
                                THEN FDiv(FMul(Num(100), FSub(clipped, min_val)),
                                          FSub(max_val, min_val))
                                ELSE Num(50)
              IN  IF invert THEN FSub(Num(100), normalized) ELSE normalized :
            v \in {value}})

(* scoring.normalize: the ratio is taken first and clipped to [0, 1].      *)
scoring_normalize(value, vmin, vmax, invert) ==
    The({IF IsNone(v) \/ IsNaN(v) THEN Num(50)
         ELSE IF FEq(vmax, vmin) THEN Num(50)
         ELSE LET val == NpClip(FDiv(FSub(v, vmin), FSub(vmax, vmin)), Num(0), Num(1))
                  inv == IF invert THEN FSub(Num(1), val) ELSE val
              IN  FMul(inv, Num(100)) :
            v \in {value}})

(* The values and bands the normalizers are called with: the bands of the  *)
(* scoring code, a degenerate band and a reversed one.                     *)
NormValues ==
    {None, NaN, Num(-500), Num(-20), Num(-10), Num(-5), Num(0), Rat(2, 5),
     Num(1), Num(3), Num(15), Num(25), Num(40), Num(150), Num(300), Num(2500),
     Num(5000), Num(9000)}

NormBands ==
    {<<Num(-10), Num(40)>>, <<Num(-5), Num(15)>>, <<Num(0), Num(300)>>,
     <<Num(0), Rat(4, 5)>>, <<Num(0), Num(5000)>>, <<Num(1), Num(5)>>,
     <<Num(3), Num(3)>>, <<Num(0), Num(0)>>, <<Num(5), Num(1)>>}

NormalizeInputs ==
    [value : NormValues, band : NormBands, invert : BOOLEAN]

InitNormalize ==
    /\ op = "normalize"
    /\ args \in NormalizeInputs
    /\ ret = Pending
    /\ data_cache = NoFiles
    /\ frame = NoFrame

CallNormalize ==
    /\ op = "normalize"
    /\ ret = Pending
    /\ ret' = [prism |-> normalize(args.value, args.band[1], args.band[2], args.invert),
               scoring |-> scoring_normalize(args.value, args.band[1], args.band[2],
                                             args.invert)]
    /\ UNCHANGED <<op, args, data_cache, frame>>

SpecNormalize == InitNormalize /\ [][CallNormalize]_vars

NormDone == op = "normalize" /\ ret # Pending

(* The band of the call, and the linear map of the clipped value onto      *)
(* [0, 100] that the normalizer is documented to compute.                  *)
NormLo == args.band[1]
NormHi == args.band[2]
NormProperBand == FLt(NormLo, NormHi)

LinearMap(v, lo, hi) ==
    LET c == IF FLt(v, lo) THEN lo ELSE IF FGt(v, hi) THEN hi ELSE v
    IN  Rat(100 * (c.n * lo.d * hi.d - lo.n * c.d * hi.d),
            c.d * (hi.n * lo.d - lo.n * hi.d))

(* C1: for a band with min < max and a non-missing value, both normalizers *)
(* (invert off) return 100 * (clip(v, min, max) - min) / (max - min): 0    *)
(* below the band, 100 above it, 50 at its midpoint, and the same result   *)
(* for the value already clipped to the band as for the raw value.         *)
C1_NormalizeClipsAndScales ==
    (NormDone /\ IsNum(args.value) /\ NormProperBand /\ ~args.invert) =>
        LET v == args.value
            mid == FDiv(FAdd(NormLo, NormHi), Num(2))
            c == NpClip(v, NormLo, NormHi)
        IN  /\ ret.prism = LinearMap(v, NormLo, NormHi)
            /\ ret.scoring = LinearMap(v, NormLo, NormHi)
            /\ FLt(v, NormLo) => (ret.prism = Num(0) /\ ret.scoring = Num(0))
            /\ FGt(v, NormHi) => (ret.prism = Num(100) /\ ret.scoring = Num(100))
            /\ FEq(v, mid) => (ret.prism = Num(50) /\ ret.scoring = Num(50))
            /\ normalize(c, NormLo, NormHi, FALSE) = ret.prism
            /\ scoring_normalize(c, NormLo, NormHi, FALSE) = ret.scoring

(* a value above its band has been normalized to 100 by both normalizers   *)
C1_Witness ==
    /\ NormDone /\ ~args.invert /\ NormProperBand
    /\ args.value = Num(9000) /\ NormHi = Num(5000)
    /\ ret.prism = Num(100) /\ ret.scoring = Num(100)

(* C3: a missing value (None or NaN, any band) and a degenerate band       *)
(* (min = max, any value) both normalize to exactly 50, inverted or not.   *)
C3_NormalizeNeutralOnUninformative ==
    (NormDone /\ (IsNone(args.value) \/ IsNaN(args.value) \/ FEq(NormLo, NormHi))) =>
        (ret.prism = Num(50) /\ ret.scoring = Num(50))

(* a present value was normalized, inverted, over a band with min = max    *)
C3_Witness ==
    /\ NormDone /\ args.invert /\ IsNum(args.value)
    /\ NormLo = Num(3) /\ NormHi = Num(3)
    /\ ret.prism = Num(50) /\ ret.scoring = Num(50)

(* C4: over a band with min < max the inverted normalization of a value   *)
(* is 100 minus its plain normalization (the linear map of the clipped     *)
(* value, or the neutral 50 of a missing value).                           *)
C4_InvertIsComplement ==
    (NormDone /\ NormProperBand /\ args.invert) =>
        LET plain == IF IsNum(args.value)
                     THEN LinearMap(args.value, NormLo, NormHi)
                     ELSE Num(50)
        IN  /\ ret.prism = FSub(Num(100), plain)
            /\ ret.scoring = FSub(Num(100), plain)
            /\ ret.prism = FSub(Num(100), normalize(args.value, NormLo, NormHi, FALSE))
            /\ ret.scoring =
                   FSub(Num(100), scoring_normalize(args.value, NormLo, NormHi, FALSE))

(* debt/equity 150 over [0, 300] inverted, and a value below its band      *)
(* inverted to 100                                                         *)
C4_Witness ==
    /\ NormDone /\ args.invert /\ NormProperBand
    /\ args.value = Num(-5) /\ NormLo = Num(0) /\ NormHi = Num(300)
    /\ ret.prism = Num(100) /\ ret.scoring = Num(100)

---------------------------------------------------------------------------
(* prism_scoring.compute_firm_score                                        *)
(*                                                                         *)
(* A fundamentals record is None or a dict; the dict is a record over      *)
(* FirmKeys whose value is Absent where the key is not in the dict.        *)

FirmKeys ==
    {"market_cap", "roe", "profit_margin", "revenue_growth", "gross_margin",
     "debt_to_equity", "fcf"}

EmptyDict == [key \in FirmKeys |-> Absent]

(* dict.get(key, default)                                                  *)
DictGet(dict, key, default) ==
    IF dict[key].k = "absent" THEN default ELSE dict[key]

(* `not fundamentals`: None or the empty dict                              *)
NotFundamentals(f) == f = None \/ f = EmptyDict

(* x = x * 100 if x < 1 else x (lines 50, 54, 62): no abs()                *)
PercentIfBelowOne(x) ==
    The({IF IsNone(a) THEN a
         ELSE IF FLt(a, Num(1)) THEN FMul(a, Num(100)) ELSE a : a \in {x}})

(* revenue_growth * 100 if abs(revenue_growth) < 5 else revenue_growth     *)
PercentIfGrowthFraction(x) ==
    The({IF IsNone(a) THEN a
         ELSE IF FLt(FAbs(a), Num(5)) THEN FMul(a, Num(100)) ELSE a : a \in {x}})

(* (fcf / market_cap * 100) if fcf and market_cap else None                *)
FcfToMcap(fcf, market_cap) ==
    IF Truthy(fcf) /\ Truthy(market_cap)
    THEN FMul(FDiv(fcf, market_cap), Num(100))
    ELSE None

(* normalize(x, lo, hi, invert) if x is not None else 55                   *)
SubScore(x, lo, hi, invert) ==
    The({IF ~IsNone(a) THEN normalize(a, lo, hi, invert) ELSE Num(55) : a \in {x}})

(* the locals of compute_firm_score after line 76, for a record that got   *)
(* past the guard of line 44                                               *)
FirmLocals(f) ==
    LET roe == PercentIfBelowOne(DictGet(f, "roe", None))
        profit_margin == PercentIfBelowOne(DictGet(f, "profit_margin", None))
        revenue_growth == PercentIfGrowthFraction(DictGet(f, "revenue_growth", None))
        gross_margin == PercentIfBelowOne(DictGet(f, "gross_margin", None))
        debt_to_equity == DictGet(f, "debt_to_equity", None)
        fcf == DictGet(f, "fcf", None)
        market_cap == DictGet(f, "market_cap", Num(1))
        fcf_to_mcap == FcfToMcap(fcf, market_cap)
    IN  [roe |-> roe, profit_margin |-> profit_margin,
         revenue_growth |-> revenue_growth, gross_margin |-> gross_margin,
         fcf_to_mcap |-> fcf_to_mcap,
         roe_score |-> SubScore(roe, Num(-10), Num(40), FALSE),
         margin_score |-> SubScore(profit_margin, Num(-10), Num(50), FALSE),
         growth_score |-> SubScore(revenue_growth, Num(-20), Num(50), FALSE),
         fcf_score |-> SubScore(fcf_to_mcap, Num(-5), Num(15), FALSE),
         debt_score |-> SubScore(debt_to_equity, Num(0), Num(300), TRUE),
         gross_score |-> SubScore(gross_margin, Num(0), Num(80), FALSE)]

(* lines 79-86                                                             *)
FirmWeightedAverage(l) ==
    FAdd(FAdd(FAdd(FAdd(FAdd(FMul(Rat(25, 100), l.fcf_score),
                             FMul(Rat(25, 100), l.roe_score)),
                        FMul(Rat(20, 100), l.margin_score)),
                   FMul(Rat(15, 100), l.gross_score)),
              FMul(Rat(10, 100), l.growth_score)),
         FMul(Rat(5, 100), l.debt_score))

FirmGuard_emptyonly(f) == NotFundamentals(f)

(* line 44: not fundamentals or fundamentals.get("market_cap") is None     *)
FirmGuard(f) ==
    NotFundamentals(f) \/ IsNone(DictGet(f, "market_cap", None))

compute_firm_score(f) ==
    IF FirmGuard(f) THEN Num(55) ELSE FirmWeightedAverage(FirmLocals(f))

(* The records compute_firm_score is called with: None, and every dict     *)
(* over the field values below that carries at most MaxPresent keys.       *)
MaxPresent == 3

FirmFieldValues ==
    [market_cap |-> {Absent, None, NaN, Num(0), Num(1000)},
     roe |-> {Absent, None, NaN, Num(-5), Rat(1, 4), Num(1), Num(50)},
     profit_margin |-> {Absent, None, NaN, Num(20), Rat(1, 5), Num(-5)},
     revenue_growth |-> {Absent, None, NaN, Rat(1, 10), Num(5), Num(-3), Num(-30)},
     gross_margin |-> {Absent, None, NaN, Rat(2, 5), Num(90)},
     debt_to_equity |-> {Absent, None, NaN, Num(150), Num(400)},
     fcf |-> {Absent, None, NaN, Num(0), Num(50), Num(-100), Num(200)}]

FirmDicts ==
    {f \in [market_cap : FirmFieldValues.market_cap, roe : FirmFieldValues.roe,
            profit_margin : FirmFieldValues.profit_margin,
            revenue_growth : FirmFieldValues.revenue_growth,
            gross_margin : FirmFieldValues.gross_margin,
            debt_to_equity : FirmFieldValues.debt_to_equity,
            fcf : FirmFieldValues.fcf] :
        Cardinality({key \in FirmKeys : f[key] # Absent}) <= MaxPresent}

InitFirm ==
    /\ op = "compute_firm_score"
    /\ args \in {None} \cup FirmDicts
    /\ ret = Pending
    /\ data_cache = NoFiles
    /\ frame = NoFrame

CallFirm ==
    /\ op = "compute_firm_score"
    /\ ret = Pending
    /\ ret' = [firm_score |-> compute_firm_score(args),
               locals |-> IF FirmGuard(args) THEN None ELSE FirmLocals(args)]
    /\ UNCHANGED <<op, args, data_cache, frame>>

SpecFirm == InitFirm /\ [][CallFirm]_vars

FirmDone == op = "compute_firm_score" /\ ret # Pending

Missing(x) == x.k \in {"absent", "none", "nan"}

(* the call got past the guard of line 44 with a positive market cap       *)
FirmScored ==
    /\ FirmDone
    /\ args # None
    /\ IsNum(args.market_cap)
    /\ args.market_cap.n > 0

C8_MissingInputScores55 ==
    FirmScored =>
        /\ Missing(args.roe) => ret.locals.roe_score = Num(55)
        /\ Missing(args.profit_margin) => ret.locals.margin_score = Num(55)
        /\ Missing(args.gross_margin) => ret.locals.gross_score = Num(55)
        /\ Missing(args.revenue_growth) => ret.locals.growth_score = Num(55)
        /\ Missing(args.debt_to_equity) => ret.locals.debt_score = Num(55)
        /\ Missing(args.fcf) => ret.locals.fcf_score = Num(55)
        /\ IsNum(args.fcf) =>
               ret.locals.fcf_score =
                   LinearMap(FMul(FDiv(args.fcf, args.market_cap), Num(100)),
                             Num(-5), Num(15))

ScaledByMagnitude(x, limit) ==
    IF FLt(FAbs(x), Num(limit)) THEN FMul(x, Num(100)) ELSE x

(* C9: roe, profit_margin and gross_margin are multiplied by 100 exactly   *)
(* when abs(value) < 1 and revenue_growth exactly when abs(value) < 5, and *)
(* the value so scaled is the one normalized (roe = -5 is scored as -5%).  *)
C9_ScaleDetectedByMagnitude ==
    FirmScored =>
        /\ IsNum(args.roe) =>
               /\ ret.locals.roe = ScaledByMagnitude(args.roe, 1)
               /\ ret.locals.roe_score =
                      LinearMap(ScaledByMagnitude(args.roe, 1), Num(-10), Num(40))
        /\ IsNum(args.profit_margin) =>
               ret.locals.profit_margin = ScaledByMagnitude(args.profit_margin, 1)
        /\ IsNum(args.gross_margin) =>
               ret.locals.gross_margin = ScaledByMagnitude(args.gross_margin, 1)
        /\ IsNum(args.revenue_growth) =>
               ret.locals.revenue_growth = ScaledByMagnitude(args.revenue_growth, 5)

---------------------------------------------------------------------------
(* prism_scoring.compute_sector_fundamentals                               *)
(*                                                                         *)
(* firms_df is a sequence of rows; row.to_dict() carries every column, a   *)
(* missing cell being NaN (None in a column that holds no number at all).  *)

RECURSIVE SeqSumSkipNA(_)
(* Series.sum(): NaN and None cells are skipped, the empty sum is 0        *)
SeqSumSkipNA(xs) ==
    IF xs = <<>> THEN Num(0)
    ELSE IF IsNum(Head(xs)) THEN FAdd(Head(xs), SeqSumSkipNA(Tail(xs)))
    ELSE SeqSumSkipNA(Tail(xs))

(* Series.mean(): the sum of the cells that are numbers over their count   *)
SeqMeanSkipNA(xs) ==
    LET cnt == Cardinality({i \in 1..Len(xs) : IsNum(xs[i])})
    IN  IF cnt = 0 THEN NaN ELSE FDiv(SeqSumSkipNA(xs), Num(cnt))

Column(firms_df, key) == [i \in 1..Len(firms_df) |-> firms_df[i][key]]

(* line 100-102: firms_df["firm_score"]                                    *)
FirmScoreColumn(firms_df) ==
    [i \in 1..Len(firms_df) |-> compute_firm_score(firms_df[i])]

TotalMcap(firms_df) == SeqSumSkipNA(Column(firms_df, "market_cap"))

(* line 106: total_mcap == 0 or pd.isna(total_mcap)                        *)
EqualWeightFallback(firms_df) ==
    FEq(TotalMcap(firms_df), Num(0)) \/ ~IsNum(TotalMcap(firms_df))

(* line 110: firms_df["weight"]                                            *)
WeightColumn_equal(firms_df) ==
    [i \in 1..Len(firms_df) |-> Rat(1, Len(firms_df))]

WeightColumn_byfirst(firms_df) ==
    [i \in 1..Len(firms_df) |->
        FDiv(IF IsNum(firms_df[i].market_cap) THEN firms_df[i].market_cap ELSE NaN,
             firms_df[1].market_cap)]

WeightColumn(firms_df) ==
    [i \in 1..Len(firms_df) |->
        FDiv(IF IsNum(firms_df[i].market_cap) THEN firms_df[i].market_cap ELSE NaN,
             TotalMcap(firms_df))]

compute_sector_fundamentals(firms_df) ==
    IF firms_df = <<>> THEN Num(50)
    ELSE IF EqualWeightFallback(firms_df)
         THEN SeqMeanSkipNA(FirmScoreColumn(firms_df))
    ELSE LET score == FirmScoreColumn(firms_df)
             weight == WeightColumn(firms_df)
         IN  SeqSumSkipNA([i \in 1..Len(firms_df) |-> FMul(score[i], weight[i])])

(* the columns the call has added to the caller's frame when it returns    *)
AddedColumns(firms_df) ==
    IF firms_df = <<>> THEN {}
    ELSE IF EqualWeightFallback(firms_df) THEN {"firm_score"}
    ELSE {"firm_score", "weight"}

(* The firm tables of the model: up to MaxFirms rows.                      *)
MaxFirms == 2

TableRows ==
    {[EmptyDict EXCEPT !.market_cap = mc, !.roe = r, !.fcf = f,
                       !.profit_margin = NaN, !.revenue_growth = NaN,
                       !.gross_margin = NaN, !.debt_to_equity = NaN] :
        mc \in {None, NaN, Num(0), Num(1000), Num(3000)},
        r \in {NaN, Rat(1, 4)},
        f \in {NaN, Num(50)}}

(* a market_cap column holds None only when it holds no number              *)
ColumnWellTyped(t) ==
    \/ \A i \in 1..Len(t) : IsNone(t[i].market_cap)
    \/ \A i \in 1..Len(t) : ~IsNone(t[i].market_cap)

FirmTables ==
    {t \in UNION {[1..len -> TableRows] : len \in 0..MaxFirms} : ColumnWellTyped(t)}

InitSector ==
    /\ op = "compute_sector_fundamentals"
    /\ args \in FirmTables
    /\ ret = Pending
    /\ data_cache = NoFiles
    /\ frame = NoFrame

CallSector ==
    /\ op = "compute_sector_fundamentals"
    /\ ret = Pending
    /\ ret' = [score |-> compute_sector_fundamentals(args),
               firm_score |-> FirmScoreColumn(args),
               added |-> AddedColumns(args)]
    /\ UNCHANGED <<op, args, data_cache, frame>>

SpecSector == InitSector /\ [][CallSector]_vars

SectorDone == op = "compute_sector_fundamentals" /\ ret # Pending

(* the rows whose market cap is a number, and the sums the claim is about  *)
CapKnown(i) == IsNum(args[i].market_cap)

RECURSIVE SumOver(_, _)
SumOver(term, idx) ==
    IF idx = {} THEN Num(0)
    ELSE LET i == CHOOSE j \in idx : TRUE
         IN  FAdd(term[i], SumOver(term, idx \ {i}))

KnownTotal ==
    SumOver([i \in 1..Len(args) |-> args[i].market_cap],
            {i \in 1..Len(args) : CapKnown(i)})

(* C10: an empty table gives exactly 50; a table whose total market cap is *)
(* zero or unknown gives the unweighted mean of the firm scores; any other *)
(* table gives the sum of firm_score * market_cap / total over its firms   *)
(* (a firm whose own cap is unknown has no term).                          *)
C10_SectorFundamentals ==
    SectorDone =>
        /\ args = <<>> => ret.score = Num(50)
        /\ (args # <<>> /\ KnownTotal.n = 0) =>
               ret.score = FDiv(SumOver(ret.firm_score, 1..Len(args)), Num(Len(args)))
        /\ (args # <<>> /\ KnownTotal.n # 0) =>
               ret.score =
                   FDiv(SumOver([i \in 1..Len(args) |->
                                    FMul(ret.firm_score[i],
                                         IF CapKnown(i) THEN args[i].market_cap
                                         ELSE Num(0))],
                                1..Len(args)),
                        KnownTotal)

(* two firms with caps 1000 and 3000 and different scores: the result is   *)
(* the cap-weighted sum, which is not their plain mean                     *)
C10_Witness ==
    /\ SectorDone
    /\ Len(args) = 2
    /\ args[1].market_cap = Num(1000)
    /\ args[2].market_cap = Num(3000)
    /\ ret.firm_score[1] = Num(55)
    /\ ret.firm_score[2] = Rat(275, 6)
    /\ ret.score = Rat(385, 8)

(* the orders the rows of a table of n rows can come in                    *)
Permutations(n) ==
    {p \in [1..n -> 1..n] : \A i, j \in 1..n : i # j => p[i] # p[j]}

Reordered(firms_df, p) == [i \in 1..Len(firms_df) |-> firms_df[p[i]]]

(* C11: the sector fundamentals score does not depend on the order of the  *)
(* firms: every reordering of the rows of the table gives the score the    *)
(* call returned, in the cap-weighted and in the equal-weight case.        *)
C11_OrderInvariant ==
    SectorDone =>
        \A p \in Permutations(Len(args)) :
            compute_sector_fundamentals(Reordered(args, p)) = ret.score

(* two firms of different caps and different scores, cap-weighted, and the *)
(* table with its rows swapped scores the same                             *)
C11_Witness ==
    /\ SectorDone
    /\ Len(args) = 2
    /\ ~EqualWeightFallback(args)
    /\ IsNum(args[1].market_cap) /\ IsNum(args[2].market_cap)
    /\ args[1].market_cap # args[2].market_cap
    /\ ret.firm_score[1] # ret.firm_score[2]
    /\ compute_sector_fundamentals(<<args[2], args[1]>>) = ret.score

(* C14: the calculators are pure: when compute_sector_fundamentals returns, *)
(* the table it was given has no column it did not have before, and        *)
(* scoring the same table (and each of its rows) again gives the same      *)
(* scores.                                                                 *)
C14_CalculatorsPure ==
    SectorDone =>
        /\ ret.added = {}
        /\ compute_sector_fundamentals(args) = ret.score
        /\ \A i \in 1..Len(args) : compute_firm_score(args[i]) = ret.firm_score[i]

---------------------------------------------------------------------------
(* prism_scoring.compute_structural_score                                  *)

(* a call that raised instead of returning                                 *)
Raised(exc) == [k |-> "raised", exc |-> exc]

HasRaised(r) == "k" \in DOMAIN r /\ r.k = "raised"

(* lines 132-141                                                           *)
Barriers(r_and_d_intensity, regulation_flag) ==
    LET base == IF FGt(r_and_d_intensity, Num(10)) THEN Rat(9, 2)
                ELSE IF FGt(r_and_d_intensity, Num(5)) THEN Rat(7, 2)
                ELSE Rat(5, 2)
        reg == IF regulation_flag = 1 THEN FAdd(base, Rat(1, 2)) ELSE base
    IN  IF FLt(Num(5), reg) THEN Num(5) ELSE reg

(* lines 144-148                                                           *)
Substitutes(sector) ==
    IF sector \in {"Information Technology", "Communication Services"} THEN Num(4)
    ELSE IF sector \in {"Utilities", "Real Estate"} THEN Num(2)
    ELSE Num(3)

(* lines 151-152                                                           *)
SupplierPower(hhi) ==
    NpClip(FDiv(normalize(hhi, Num(0), Num(5000), FALSE), Num(20)), Num(1), Num(5))

(* lines 155-157                                                           *)
BuyerPower(sector) ==
    IF sector \in {"Consumer Discretionary", "Consumer Staples"} THEN Rat(7, 2)
    ELSE Num(3)

(* lines 160-161                                                           *)
Rivalry(hhi) ==
    NpClip(FDiv(normalize(hhi, Num(0), Num(5000), TRUE), Num(20)), Num(1), Num(5))

(* lines 167-174: lifecycle_map.get(lifecycle_stage, 3.5)                  *)
LifecycleVal_midpoint(lifecycle_stage) ==
    CASE lifecycle_stage = "Intro" -> Num(2)
      [] lifecycle_stage = "Growth" -> Num(4)
      [] lifecycle_stage = "Shakeout" -> Num(3)
      [] lifecycle_stage = "Mature" -> Rat(7, 2)
      [] lifecycle_stage = "Decline" -> Rat(5, 2)
      [] OTHER -> Num(3)

LifecycleVal(lifecycle_stage) ==
    CASE lifecycle_stage = "Intro" -> Num(2)
      [] lifecycle_stage = "Growth" -> Num(4)
      [] lifecycle_stage = "Shakeout" -> Num(3)
      [] lifecycle_stage = "Mature" -> Rat(7, 2)
      [] lifecycle_stage = "Decline" -> Rat(5, 2)
      [] OTHER -> Rat(7, 2)

(* the locals of compute_structural_score before the return of line 180    *)
StructuralLocals(sector, r_and_d_intensity, hhi, regulation_flag, lifecycle_stage) ==
    LET barriers == Barriers(r_and_d_intensity, regulation_flag)
        substitutes == Substitutes(sector)
        supplier_power == SupplierPower(hhi)
        buyer_power == BuyerPower(sector)
        rivalry == Rivalry(hhi)
        porter_avg ==
            FDiv(FAdd(FAdd(FAdd(FAdd(barriers, substitutes), supplier_power),
                           buyer_power), rivalry), Num(5))
        porter_score == normalize(porter_avg, Num(1), Num(5), FALSE)
        lifecycle_score == normalize(LifecycleVal(lifecycle_stage), Num(1), Num(5), FALSE)
    IN  [barriers |-> barriers, substitutes |-> substitutes,
         supplier_power |-> supplier_power, buyer_power |-> buyer_power,
         rivalry |-> rivalry, porter_avg |-> porter_avg,
         porter_score |-> porter_score, lifecycle_score |-> lifecycle_score,
         structural_score |-> FAdd(FMul(Rat(70, 100), porter_score),
                                   FMul(Rat(30, 100), lifecycle_score))]

(* lines 180-187: the returned dict                                        *)
compute_structural_score(sector, r_and_d_intensity, hhi, regulation_flag, lifecycle_stage) ==
    LET l == StructuralLocals(sector, r_and_d_intensity, hhi, regulation_flag,
                              lifecycle_stage)
    IN  [porter_score |-> Round2(l.porter_score),
         lifecycle_score |-> Round2(l.lifecycle_score),
         structural_score |-> Round2(l.structural_score),
         barriers |-> Round2(l.barriers),
         substitutes |-> Round2(l.substitutes),
         rivalry |-> Round2(l.rivalry)]

Sectors == {"Information Technology", "Utilities", "Consumer Staples", "Industrials"}

LifecycleStages == {"Intro", "Growth", "Shakeout", "Mature", "Decline", "Unknown"}

StructuralInputs ==
    [sector : Sectors,
     r_and_d_intensity : {NaN, Num(0), Num(5), Num(7), Num(10), Num(12)},
     hhi : {None, NaN, Num(-100), Num(0), Num(2000), Num(2500), Num(5000), Num(9000)},
     regulation_flag : {0, 1},
     lifecycle_stage : LifecycleStages]

InitStructural ==
    /\ op = "compute_structural_score"
    /\ args \in StructuralInputs
    /\ ret = Pending
    /\ data_cache = NoFiles
    /\ frame = NoFrame

CallStructural ==
    /\ op = "compute_structural_score"
    /\ ret = Pending
    /\ ret' = [result |-> compute_structural_score(args.sector, args.r_and_d_intensity,
                                                   args.hhi, args.regulation_flag,
                                                   args.lifecycle_stage),
               locals |-> StructuralLocals(args.sector, args.r_and_d_intensity,
                                           args.hhi, args.regulation_flag,
                                           args.lifecycle_stage)]
    /\ UNCHANGED <<op, args, data_cache, frame>>

SpecStructural == InitStructural /\ [][CallStructural]_vars

StructuralDone == op = "compute_structural_score" /\ ret # Pending

(* the HHI clipped to the band [0, 5000]                                   *)
HhiInBand == NpClip(args.hhi, Num(0), Num(5000))

(* C22: supplier power is the HHI clipped to [0, 5000] mapped linearly     *)
(* onto [1, 5] (0 gives 1, 2500 gives 3, 5000 and more give 5), rivalry is *)
(* the inverted mapping (0 gives 5, 2500 gives 3, 5000 and more give 1),   *)
(* and both lie in [1, 5].                                                 *)
C22_HhiForcesLinear ==
    StructuralDone =>
        /\ FGe(ret.locals.supplier_power, Num(1)) /\ FLe(ret.locals.supplier_power, Num(5))
        /\ FGe(ret.locals.rivalry, Num(1)) /\ FLe(ret.locals.rivalry, Num(5))
        /\ IsNum(args.hhi) =>
               /\ ret.locals.supplier_power =
                      FAdd(Num(1), FDiv(FMul(Num(4), HhiInBand), Num(5000)))
               /\ ret.locals.rivalry =
                      FSub(Num(5), FDiv(FMul(Num(4), HhiInBand), Num(5000)))

(* C23: structural = 0.70 * porter + 0.30 * lifecycle (each entry of the   *)
(* returned dict rounded to two decimals), porter being the mean of the    *)
(* five forces normalized over [1, 5] and lifecycle the lookup Intro 2,    *)
(* Growth 4, Shakeout 3, Mature 3.5, Decline 2.5 normalized over [1, 5];   *)
(* a stage outside the lookup gives the result of "Mature"; hhi 0, no      *)
(* regulation, R&D 0, a sector without special cases and stage Mature give *)
(* porter 47.5, lifecycle 62.5, structural 52.                             *)
C23_StructuralCombination ==
    StructuralDone =>
        LET l == ret.locals
            stage == args.lifecycle_stage
            lookup == CASE stage = "Intro" -> Num(2)
                        [] stage = "Growth" -> Num(4)
                        [] stage = "Shakeout" -> Num(3)
                        [] stage = "Decline" -> Rat(5, 2)
                        [] OTHER -> Rat(7, 2)
            mean == FDiv(FAdd(FAdd(FAdd(FAdd(l.barriers, l.substitutes),
                                        l.supplier_power), l.buyer_power), l.rivalry),
                         Num(5))
        IN  /\ l.porter_score = LinearMap(NpClip(mean, Num(1), Num(5)), Num(1), Num(5))
            /\ l.lifecycle_score = FMul(Num(25), FSub(lookup, Num(1)))
            /\ l.structural_score = FAdd(FMul(Rat(7, 10), l.porter_score),
                                         FMul(Rat(3, 10), l.lifecycle_score))
            /\ ret.result.structural_score = Round2(l.structural_score)
            /\ ret.result.porter_score = Round2(l.porter_score)
            /\ ret.result.lifecycle_score = Round2(l.lifecycle_score)
            /\ stage \notin {"Intro", "Growth", "Shakeout", "Mature", "Decline"} =>
                   ret.result = compute_structural_score(args.sector,
                                    args.r_and_d_intensity, args.hhi,
                                    args.regulation_flag, "Mature")
            /\ (args.hhi = Num(0) /\ args.regulation_flag = 0
                /\ args.r_and_d_intensity = Num(0) /\ args.sector = "Industrials"
                /\ stage = "Mature") =>
                   /\ ret.result.porter_score = Rat(95, 2)
                   /\ ret.result.lifecycle_score = Rat(125, 2)
                   /\ ret.result.structural_score = Num(52)

(* the worked example of the claim has been computed                       *)
C23_Witness ==
    /\ StructuralDone
    /\ args.hhi = Num(0) /\ args.regulation_flag = 0
    /\ args.r_and_d_intensity = Num(0) /\ args.sector = "Industrials"
    /\ args.lifecycle_stage = "Mature"
    /\ ret.result.porter_score = Rat(95, 2)
    /\ ret.result.lifecycle_score = Rat(125, 2)
    /\ ret.result.structural_score = Num(52)

---------------------------------------------------------------------------
(* prism_scoring.compute_market_behavior_score                             *)
(*                                                                         *)
(* The price provider (fetch_price_data, lines 190-198) answers None on a  *)
(* failure, an empty frame, or a price history.  A history enters the      *)
(* model as the five statistics lines 223-263 draw from it (stats), each a *)
(* number or NaN; lines 265-289 score them.                                *)

NoPrices == [k |-> "none"]
EmptyPrices == [k |-> "empty"]

PriceStats ==
    [k : {"stats"},
     ret_12m : {NaN, Rat(-3, 4), Num(0), Num(2)},
     ret_6m : {NaN, Rat(-3, 4), Rat(1, 4)},
     ann_vol : {NaN, Num(0), Rat(3, 10), Rat(3, 2)},
     max_drawdown : {NaN, Num(0), Rat(1, 5), Rat(9, 10)},
     beta : {NaN, Num(-1), Num(1), Num(3)}]

(* lines 266-280                                                           *)
MarketBehaviorRaw(st) ==
    FAdd(FAdd(FAdd(FAdd(
        FMul(Rat(25, 100), normalize(st.ret_12m, Rat(-1, 2), Num(1), FALSE)),
        FMul(Rat(25, 100), normalize(st.ret_6m, Rat(-1, 2), Num(1), FALSE))),
        FMul(Rat(20, 100), normalize(st.ann_vol, Rat(1, 10), Num(1), TRUE))),
        FMul(Rat(20, 100), normalize(st.max_drawdown, Num(0), Rat(6, 10), TRUE))),
        FMul(Rat(10, 100), normalize(st.beta, Rat(1, 2), Rat(5, 2), TRUE)))

(* the market_behavior_score entry of the returned dict                    *)
compute_market_behavior_score(firms_df, prices) ==
    IF firms_df = <<>> THEN Num(50)
    ELSE IF prices.k \in {"none", "empty"} THEN Num(50)
    ELSE Round2(MarketBehaviorRaw(prices))

BehaviorTables ==
    {t \in FirmTables :
        /\ Len(t) <= 1
        /\ \A i \in 1..Len(t) :
               t[i].market_cap = Num(1000) /\ t[i].roe = NaN /\ t[i].fcf = NaN}

InitBehavior ==
    /\ op = "compute_market_behavior_score"
    /\ args \in [firms_df : BehaviorTables,
                 prices : {NoPrices, EmptyPrices} \cup PriceStats]
    /\ ret = Pending
    /\ data_cache = NoFiles
    /\ frame = NoFrame

CallBehavior ==
    /\ op = "compute_market_behavior_score"
    /\ ret = Pending
    /\ ret' = [market_behavior_score |->
                   compute_market_behavior_score(args.firms_df, args.prices)]
    /\ UNCHANGED <<op, args, data_cache, frame>>

SpecBehavior == InitBehavior /\ [][CallBehavior]_vars

---------------------------------------------------------------------------
(* The price statistics of compute_market_behavior_score (lines 219-244)   *)
(* and scoring.compute_max_drawdown                                        *)
(*                                                                         *)
(* A price history is the Close column, a sequence of closes.  The         *)
(* statistics are exact rationals; the annualized volatility of a sample   *)
(* is kept as the square root of an exact radicand.  The beta of lines     *)
(* 246-263 needs a second history and the scoring of lines 265-289 is      *)
(* compute_market_behavior_score above.                                    *)

(* x + y over the least common denominator                                 *)
FAddLcd(x, y) ==
    The({IF IsNum(a) /\ IsNum(b)
         THEN Rat(a.n * (b.d \div GCD(a.d, b.d)) + b.n * (a.d \div GCD(a.d, b.d)),
                  (a.d \div GCD(a.d, b.d)) * b.d)
         ELSE NaN : a \in {x}, b \in {y}})

(* Series.iloc[k], k counted from 0, or from the end when negative         *)
ILoc(series, k) ==
    The({IF i >= 1 /\ i <= Len(series) THEN series[i] ELSE Raised("IndexError") :
            i \in {IF k < 0 THEN Len(series) + k + 1 ELSE k + 1}})

(* Series.pct_change(): the first cell is NaN                              *)
pct_change(series) ==
    [i \in 1..Len(series) |->
        IF i = 1 THEN NaN ELSE FSub(FDiv(series[i], series[i - 1]), Num(1))]

(* Series.dropna()                                                         *)
dropna(series) == SelectSeq(series, IsNum)

(* the sum of xs[lo..hi], by halves                                        *)
RECURSIVE SumRange(_, _, _)
SumRange(xs, lo, hi) ==
    IF lo > hi THEN Num(0)
    ELSE IF lo = hi THEN xs[lo]
    ELSE The({FAddLcd(SumRange(xs, lo, mid), SumRange(xs, mid + 1, hi)) :
                 mid \in {(lo + hi) \div 2}})

(* Series.std(): the sample standard deviation (ddof = 1), as its square   *)
SampleVariance(xs) ==
    The({The({FDiv(SumRange(squares, 1, Len(xs)), Num(Len(xs) - 1)) :
                 squares \in {[i \in 1..Len(xs) |->
                                 FMul(FSub(xs[i], mean), FSub(xs[i], mean))]}}) :
            mean \in {FDiv(SumRange(xs, 1, Len(xs)), Num(Len(xs)))}})

Sqrt(radicand) == [k |-> "sqrt", of |-> radicand]

(* lines 226-229                                                           *)
ret_12m_from_first(close_prices) ==
    IF Len(close_prices) > 0
    THEN FSub(FDiv(ILoc(close_prices, -1), ILoc(close_prices, 0)), Num(1))
    ELSE Num(0)

ret_12m(close_prices) ==
    IF Len(close_prices) > 252
    THEN (IF Len(close_prices) >= 252
          THEN FSub(FDiv(ILoc(close_prices, -1), ILoc(close_prices, -252)), Num(1))
          ELSE Num(0))
    ELSE (IF Len(close_prices) > 0
          THEN FSub(FDiv(ILoc(close_prices, -1), ILoc(close_prices, 0)), Num(1))
          ELSE Num(0))

(* lines 231-234                                                           *)
ret_6m(close_prices) ==
    IF Len(close_prices) > 126
    THEN (IF Len(close_prices) >= 126
          THEN FSub(FDiv(ILoc(close_prices, -1), ILoc(close_prices, -126)), Num(1))
          ELSE Num(0))
    ELSE ret_12m(close_prices)

(* line 238                                                                *)
ann_vol(daily_returns) ==
    IF Len(daily_returns) > 20
    THEN Sqrt(FMul(SampleVariance(daily_returns), Num(252)))
    ELSE Rat(3, 10)

(* lines 241-243, one row: (1 + r).cumprod(), its cummax() and the least   *)
(* (cumulative - running_max) / running_max so far                         *)
DrawdownRow(st, r) ==
    The({The({[cumulative |-> c, running_max |-> m,
               least |-> The({IF ~IsNum(st.least) \/ FLt(d, st.least) THEN d ELSE st.least :
                                 d \in {FDiv(FSub(c, m), m)}})] :
                 m \in {IF ~IsNum(st.running_max) \/ FGt(c, st.running_max)
                        THEN c ELSE st.running_max}}) :
            c \in {FMul(st.cumulative, FAdd(Num(1), r))}})

(* the rows lo..hi in order, by halves                                     *)
RECURSIVE DrawdownRows(_, _, _, _)
DrawdownRows(daily_returns, lo, hi, st) ==
    IF lo > hi THEN st
    ELSE IF lo = hi THEN The({DrawdownRow(s, daily_returns[lo]) : s \in {st}})
    ELSE The({The({DrawdownRows(daily_returns, mid + 1, hi, s) :
                      s \in {DrawdownRows(daily_returns, lo, mid, st)}}) :
                 mid \in {(lo + hi) \div 2}})

(* line 244                                                                *)
max_drawdown(daily_returns) ==
    IF Len(daily_returns) > 0
    THEN FAbs(DrawdownRows(daily_returns, 1, Len(daily_returns),
                           [cumulative |-> Num(1), running_max |-> NaN,
                            least |-> NaN]).least)
    ELSE Rat(2, 10)

(* lines 223-244, for a history with at least one row                      *)
PriceStatistics(close_prices) ==
    The({[ret_12m |-> ret_12m(close_prices),
          ret_6m |-> ret_6m(close_prices),
          daily_returns |-> Len(daily_returns),
          ann_vol |-> ann_vol(daily_returns),
          max_drawdown |-> max_drawdown(daily_returns)] :
            daily_returns \in {dropna(pct_change(close_prices))}})

(* scoring.compute_max_drawdown, lines 234-236, one row: prices.cummax()   *)
(* and the greatest (roll_max - prices) / roll_max so far, NaN cells       *)
(* skipped; then the rows lo..hi in order, by halves                       *)
RollRow(st, price) ==
    The({[roll_max |-> m,
          greatest |-> The({IF IsNum(d) /\ (~IsNum(st.greatest) \/ FGt(d, st.greatest))
                            THEN d ELSE st.greatest :
                               d \in {FDiv(FSub(m, price), m)}})] :
            m \in {IF ~IsNum(st.roll_max) \/ FGt(price, st.roll_max)
                   THEN price ELSE st.roll_max}})

RECURSIVE RollRows(_, _, _, _)
RollRows(prices, lo, hi, st) ==
    IF lo > hi THEN st
    ELSE IF lo = hi THEN The({RollRow(s, prices[lo]) : s \in {st}})
    ELSE The({The({RollRows(prices, mid + 1, hi, s) :
                      s \in {RollRows(prices, lo, mid, st)}}) :
                 mid \in {(lo + hi) \div 2}})

(* scoring.compute_max_drawdown, lines 230-237                            *)
compute_max_drawdown(prices) ==
    IF prices.k = "none" \/ prices.values = <<>> THEN Num(0)
    ELSE The({IF IsNaN(max_dd) THEN Num(0) ELSE max_dd :
                 max_dd \in {RollRows(prices.values, 1, Len(prices.values),
                                      [roll_max |-> NaN, greatest |-> NaN]).greatest}})

(* histories: a number of bars and the bars that differ from a close of 4  *)
PriceLengths == {1, 2, 3, 20, 21, 22, 126, 127, 252, 253, 254}
PriceShapes == {"flat", "early", "fall", "dip", "window", "rise"}

History(len, shape) ==
    [i \in 1..len |->
        Num(CASE shape = "early" /\ i = 1 -> 1
              [] shape = "early" /\ i = 2 -> 2
              [] shape = "fall" /\ i = len -> 2
              [] shape = "dip" /\ i = len - 1 -> 1
              [] shape = "window" /\ i <= len - 126 -> 2
              [] shape = "rise" /\ i = len -> 8
              [] OTHER -> 4)]

PriceHistories == {History(len, shape) : len \in PriceLengths, shape \in PriceShapes}

MaxBars == 3

(* a pd.Series of closes                                                   *)
Series(values) == [k |-> "series", values |-> values]

DrawdownSeries ==
    {NoPrices} \cup
    {Series(v) : v \in UNION {[1..n -> {Num(0), Num(1), Num(2), Num(4)}] : n \in 0..MaxBars}}

InitPriceStatistics ==
    /\ op = "compute_market_behavior_score.prices"
    /\ args \in [close_prices : PriceHistories]
    /\ ret = Pending
    /\ data_cache = NoFiles
    /\ frame = NoFrame

InitMaxDrawdown ==
    /\ op = "compute_max_drawdown"
    /\ args \in [prices : DrawdownSeries]
    /\ ret = Pending
    /\ data_cache = NoFiles
    /\ frame = NoFrame

CallPriceStatistics ==
    /\ op = "compute_market_behavior_score.prices"
    /\ ret = Pending
    /\ ret' = [locals |-> PriceStatistics(args.close_prices)]
    /\ UNCHANGED <<op, args, data_cache, frame>>

CallMaxDrawdown ==
    /\ op = "compute_max_drawdown"
    /\ ret = Pending
    /\ ret' = [max_dd |-> compute_max_drawdown(args.prices)]
    /\ UNCHANGED <<op, args, data_cache, frame>>

InitPrices == InitPriceStatistics \/ InitMaxDrawdown
NextPrices == CallPriceStatistics \/ CallMaxDrawdown
SpecPrices == InitPrices /\ [][NextPrices]_vars

PriceStatisticsDone == op = "compute_market_behavior_score.prices" /\ ret # Pending
MaxDrawdownDone == op = "compute_max_drawdown" /\ ret # Pending

(* the daily returns of the history the statistics were computed over      *)
DailyReturns == dropna(pct_change(args.close_prices))

(* C24: the annualized volatility is the default 0.30 exactly when fewer   *)
(* than 20 daily returns are available; with 20 or more it is the standard *)
(* deviation of the daily returns times sqrt(252).                         *)
C24_VolatilityDefaultBelow20 ==
    PriceStatisticsDone =>
        /\ (Len(DailyReturns) < 20) <=> (ret.locals.ann_vol = Rat(3, 10))
        /\ Len(DailyReturns) >= 20 =>
               ret.locals.ann_vol = Sqrt(FMul(SampleVariance(DailyReturns), Num(252)))

(* C25: max drawdown is a non-negative fraction, and 0 when the series it  *)
(* is computed over is empty: compute_max_drawdown on an empty or absent   *)
(* price series, and the drawdown step of compute_market_behavior_score    *)
(* when the history yields no daily return (a single price row).           *)
C25_DrawdownZeroOnEmpty ==
    /\ MaxDrawdownDone =>
           /\ FGe(ret.max_dd, Num(0))
           /\ (args.prices.k = "none" \/ args.prices.values = <<>>) => ret.max_dd = Num(0)
    /\ PriceStatisticsDone =>
           /\ FGe(ret.locals.max_drawdown, Num(0))
           /\ Len(DailyReturns) = 0 => ret.locals.max_drawdown = Num(0)

(* C26: with at least 252 bars the 12-month return is the last close over  *)
(* the close at the start of the 252-bar window that ends with the last    *)
(* bar (iloc[-252]), minus 1, and with fewer bars the last close over the  *)
(* first, minus 1; the 6-month return is the same ratio over the 126-bar   *)
(* window when at least 126 bars exist and the 12-month figure otherwise;  *)
(* every bar read is a bar of the series.                                  *)
C26_WindowReturns ==
    PriceStatisticsDone =>
        LET close == args.close_prices
            n == Len(close)
        IN  /\ IsNum(ret.locals.ret_12m) /\ IsNum(ret.locals.ret_6m)
            /\ ret.locals.ret_12m =
                   IF n >= 252 THEN FSub(FDiv(close[n], close[n - 251]), Num(1))
                   ELSE FSub(FDiv(close[n], close[1]), Num(1))
            /\ ret.locals.ret_6m =
                   IF n >= 126 THEN FSub(FDiv(close[n], close[n - 125]), Num(1))
                   ELSE ret.locals.ret_12m

(* a history longer than both windows whose first bar, 252-bar window      *)
(* start and 126-bar window start all differ                               *)
C26_Witness ==
    /\ PriceStatisticsDone
    /\ Len(args.close_prices) = 253
    /\ args.close_prices[1] = Num(1)
    /\ args.close_prices[2] = Num(2)
    /\ ret.locals.ret_12m = Num(1)
    /\ ret.locals.ret_6m = Num(0)

---------------------------------------------------------------------------
(* prism_scoring.compute_topdown_score                                     *)

(* lines 304-324, for a country_meta that is a dict                        *)
TopdownLocals(country_meta, swot) ==
    LET gdp_growth == DictGet(country_meta, "gdp_growth", Num(2))
        gdp_per_capita == DictGet(country_meta, "gdp_per_capita", Num(20000))
        gdp_billions == DictGet(country_meta, "gdp_billions", Num(500))
        gdp_pc_score == normalize(gdp_per_capita, Num(1000), Num(100000), FALSE)
        scale_score == normalize(gdp_billions, Num(100), Num(30000), FALSE)
        growth_score == normalize(gdp_growth, Num(-2), Num(8), FALSE)
        swot_net == (swot[1] - swot[2]) + (swot[3] - swot[4])
        swot_score == normalize(Num(swot_net), Num(-8), Num(8), FALSE)
    IN  [gdp_pc_score |-> gdp_pc_score, scale_score |-> scale_score,
         growth_score |-> growth_score, swot_score |-> swot_score,
         topdown_score |->
             FAdd(FAdd(FAdd(FMul(Rat(40, 100), gdp_pc_score),
                            FMul(Rat(40, 100), scale_score)),
                       FMul(Rat(15, 100), growth_score)),
                  FMul(Rat(5, 100), swot_score))]

(* lines 326-331; country_meta.get on None raises AttributeError           *)
compute_topdown_score(country_meta, swot) ==
    IF country_meta = None THEN Raised("AttributeError")
    ELSE LET l == TopdownLocals(country_meta, swot)
         IN  [topdown_score |-> Round2(l.topdown_score),
              growth_score |-> Round2(l.growth_score),
              gdp_pc_score |-> Round2(l.gdp_pc_score),
              swot_score |-> Round2(l.swot_score)]

CountryMetas ==
    [gdp_growth : {Absent, None, NaN, Num(-5), Rat(5, 2), Num(12)},
     gdp_per_capita : {Absent, None, NaN, Num(500), Num(50500), Num(81695), Num(200000)},
     gdp_billions : {Absent, None, NaN, Num(50), Num(15050), Num(27360), Num(40000)}]

(* (strength, weakness, opportunity, threat)                               *)
Swots == {<<3, 3, 3, 3>>, <<5, 1, 5, 1>>, <<1, 5, 1, 5>>, <<4, 3, 3, 2>>, <<9, 0, 9, 0>>}

InitTopdown ==
    /\ op = "compute_topdown_score"
    /\ args \in [country_meta : {None} \cup CountryMetas, swot : Swots]
    /\ ret = Pending
    /\ data_cache = NoFiles
    /\ frame = NoFrame

CallTopdown ==
    /\ op = "compute_topdown_score"
    /\ ret = Pending
    /\ ret' = compute_topdown_score(args.country_meta, args.swot)
    /\ UNCHANGED <<op, args, data_cache, frame>>

SpecTopdown == InitTopdown /\ [][CallTopdown]_vars

TopdownDone == op = "compute_topdown_score" /\ ret # Pending

(* C13: a macro field missing from the country record (key absent, None or *)
(* NaN) gives the sub-score computed from it the neutral 50: growth from   *)
(* gdp_growth, GDP-per-capita from gdp_per_capita, economic scale from     *)
(* gdp_billions.                                                           *)
C13_AbsentMacroFieldNeutral ==
    (TopdownDone /\ ~HasRaised(ret)) =>
        /\ Missing(args.country_meta.gdp_growth) => ret.growth_score = Num(50)
        /\ Missing(args.country_meta.gdp_per_capita) => ret.gdp_pc_score = Num(50)
        /\ Missing(args.country_meta.gdp_billions) =>
               TopdownLocals(args.country_meta, args.swot).scale_score = Num(50)

---------------------------------------------------------------------------
(* prism_scoring.compute_prism_score                                       *)

(* lines 386-391: the weight compute_prism_score gives each component      *)
CompositeWeights ==
    [fundamentals |-> Rat(35, 100), structural |-> Rat(30, 100),
     topdown |-> Rat(25, 100), behavior |-> Rat(10, 100)]

(* lines 386-391                                                           *)
Composite_docstring(fundamentals_score, structural_score, topdown_score, behavior_score) ==
    FAdd(FAdd(FAdd(FMul(Rat(40, 100), fundamentals_score),
                   FMul(Rat(30, 100), structural_score)),
              FMul(Rat(20, 100), topdown_score)),
         FMul(Rat(10, 100), behavior_score))

Composite(fundamentals_score, structural_score, topdown_score, behavior_score) ==
    FAdd(FAdd(FAdd(FMul(Rat(35, 100), fundamentals_score),
                   FMul(Rat(30, 100), structural_score)),
              FMul(Rat(25, 100), topdown_score)),
         FMul(Rat(10, 100), behavior_score))

(* lines 352-407.  a: [country_meta, sector, firms_df, kwargs, swot,       *)
(* prices]; kwargs.get(key, default) supplies the defaults of lines        *)
(* 357-360.  The result carries the sub-scores the composite was computed  *)
(* from (used) beside the entries of the returned dict.                    *)
compute_prism_score(a) ==
    The({IF HasRaised(topdown) THEN topdown
         ELSE LET structural_score == structural.structural_score
                  prism_score == Composite(fundamentals_score, structural_score,
                                           topdown.topdown_score, behavior_score)
              IN  [k |-> "returned",
                   prism_score |-> Round2(prism_score),
                   structural_score |-> Round2(structural_score),
                   fundamentals_score |-> Round2(fundamentals_score),
                   behavior_score |-> Round2(behavior_score),
                   topdown_score |-> Round2(topdown.topdown_score),
                   num_firms |-> Len(a.firms_df),
                   used |-> [fundamentals |-> fundamentals_score,
                             structural |-> structural_score,
                             topdown |-> topdown.topdown_score,
                             behavior |-> behavior_score,
                             composite |-> prism_score]] :
            structural \in {compute_structural_score(
                                a.sector,
                                IF a.kwargs.r_and_d_intensity = Absent THEN Num(5)
                                ELSE a.kwargs.r_and_d_intensity,
                                IF a.kwargs.hhi = Absent THEN Num(2000) ELSE a.kwargs.hhi,
                                a.kwargs.regulation_flag,
                                a.kwargs.lifecycle_stage)},
            fundamentals_score \in {compute_sector_fundamentals(a.firms_df)},
            behavior_score \in {compute_market_behavior_score(a.firms_df, a.prices)},
            topdown \in {compute_topdown_score(a.country_meta, a.swot)}})

PrismRows ==
    {r \in TableRows :
        /\ r.fcf = NaN
        /\ \/ r.market_cap = Num(1000) /\ r.roe = Rat(1, 4)
           \/ r.market_cap = Num(3000) /\ r.roe = NaN
           \/ r.market_cap = NaN /\ r.roe = Rat(1, 4)}

PrismTables == {t \in FirmTables : \A i \in 1..Len(t) : t[i] \in PrismRows}

(* regulation_flag and lifecycle_stage left out of kwargs are their        *)
(* defaults 0 and "Mature"                                                 *)
PrismKwargs ==
    {[r_and_d_intensity |-> Absent, hhi |-> Absent, regulation_flag |-> 0,
      lifecycle_stage |-> "Mature"],
     [r_and_d_intensity |-> Num(7), hhi |-> Absent, regulation_flag |-> 0,
      lifecycle_stage |-> "Shakeout"],
     [r_and_d_intensity |-> Num(12), hhi |-> Num(9000), regulation_flag |-> 1,
      lifecycle_stage |-> "Growth"],
     [r_and_d_intensity |-> NaN, hhi |-> NaN, regulation_flag |-> 0,
      lifecycle_stage |-> "Unknown"]}

PrismMetas ==
    {None,
     [gdp_growth |-> None, gdp_per_capita |-> NaN, gdp_billions |-> NaN],
     [gdp_growth |-> Rat(5, 2), gdp_per_capita |-> Num(81695),
      gdp_billions |-> Num(27360)],
     [gdp_growth |-> Absent, gdp_per_capita |-> Num(200000), gdp_billions |-> Num(50)]}

PrismPrices ==
    {NoPrices, EmptyPrices} \cup
    {st \in PriceStats :
        /\ st.ret_12m \in {Rat(-3, 4), Num(2)}
        /\ st.ret_6m = Rat(1, 4)
        /\ st.ann_vol = Rat(3, 10)
        /\ st.max_drawdown = Rat(1, 5)
        /\ st.beta \in {Num(1), Num(3)}}

PrismInputs ==
    [country_meta : PrismMetas,
     sector : {"Information Technology", "Consumer Staples"},
     firms_df : PrismTables,
     kwargs : PrismKwargs,
     swot : {<<3, 3, 3, 3>>, <<5, 1, 5, 1>>},
     prices : PrismPrices]

InitPrism ==
    /\ op = "compute_prism_score"
    /\ args \in PrismInputs
    /\ ret = Pending
    /\ data_cache = NoFiles
    /\ frame = NoFrame

CallPrism ==
    /\ op = "compute_prism_score"
    /\ ret = Pending
    /\ ret' = compute_prism_score(args)
    /\ UNCHANGED <<op, args, data_cache, frame>>

SpecPrism == InitPrism /\ [][CallPrism]_vars

PrismReturned == op = "compute_prism_score" /\ ret # Pending /\ ~HasRaised(ret)

PrismDone == op = "compute_prism_score" /\ ret # Pending

(* C12: compute_prism_score never raises because an input is absent: with  *)
(* an empty constituents table, with a price provider that failed or gave  *)
(* no rows, and with None for the country record, it returns a score       *)
(* record, the fundamentals and market behavior scores of an empty table   *)
(* and the market behavior score without prices being the default 50.      *)
C12_NeverRaisesOnAbsentInput ==
    PrismDone =>
        /\ ~HasRaised(ret)
        /\ args.firms_df = <<>> =>
               ret.fundamentals_score = Num(50) /\ ret.behavior_score = Num(50)
        /\ args.prices.k \in {"none", "empty"} => ret.behavior_score = Num(50)

---------------------------------------------------------------------------
(* prism_allocation.compute_alignment_score                                *)

(* lines 134-137: the rows of prism_scores for (country, sector), in order *)
MatchRows(prism_scores, country, sector) ==
    SelectSeq(prism_scores, LAMBDA r : r.country = country /\ r.sector = sector)

(* lines 147-152                                                           *)
Tier_strict(prism_score) ==
    IF FGt(prism_score, Num(70)) THEN "Overweight"
    ELSE IF FGt(prism_score, Num(55)) THEN "Neutral"
    ELSE "Underweight"

Tier(prism_score) ==
    IF FGe(prism_score, Num(70)) THEN "Overweight"
    ELSE IF FGe(prism_score, Num(55)) THEN "Neutral"
    ELSE "Underweight"

(* lines 128-173: the record appended for one allocation row               *)
AlignmentRecord(row, prism_scores) ==
    LET match == MatchRows(prism_scores, row.country, row.sector)
    IN  IF match # <<>>
        THEN LET prism_score == match[1].prism_score
             IN  [ticker |-> row.ticker, country |-> row.country,
                  sector |-> row.sector, amount |-> row.amount,
                  prism_score |-> Round2(prism_score),
                  alignment_score |-> Round2(prism_score),
                  tier |-> Tier(prism_score)]
        ELSE [ticker |-> row.ticker, country |-> row.country,
              sector |-> row.sector, amount |-> row.amount,
              prism_score |-> None,
              alignment_score |-> Num(50),
              tier |-> "Not Scored"]

compute_alignment_score_inner(allocated_sector_country, prism_scores) ==
    LET scored == SelectSeq(allocated_sector_country,
                            LAMBDA row : MatchRows(prism_scores, row.country,
                                                   row.sector) # <<>>)
    IN  [i \in 1..Len(scored) |-> AlignmentRecord(scored[i], prism_scores)]

compute_alignment_score(allocated_sector_country, prism_scores) ==
    [i \in 1..Len(allocated_sector_country) |->
        AlignmentRecord(allocated_sector_country[i], prism_scores)]

(* The portfolios and score tables of the model.                           *)
MaxAllocs == 2
MaxRows == 2

ScoredKeys == {<<"US", "Information Technology">>, <<"JP", "Industrials">>}

Holdings ==
    {<<"MSFT", "US", "Information Technology">>, <<"6501.T", "JP", "Industrials">>,
     <<"EWZ", "BR", "Diversified">>}

TableScores == {Rat(5499, 100), Num(55), Rat(69996, 1000), Num(70), Num(100), NaN}

ScoreRows ==
    {[country |-> key[1], sector |-> key[2], prism_score |-> sc] :
        key \in ScoredKeys, sc \in TableScores}

ScoreTables == UNION {[1..len -> ScoreRows] : len \in 0..MaxRows}

AllocationRows ==
    {[ticker |-> h[1], country |-> h[2], sector |-> h[3], amount |-> Num(1000)] :
        h \in Holdings}

Portfolios == UNION {[1..len -> AllocationRows] : len \in 0..MaxAllocs}

InitAlignment ==
    /\ op = "compute_alignment_score"
    /\ args \in [allocated_sector_country : Portfolios, prism_scores : ScoreTables]
    /\ ret = Pending
    /\ data_cache = NoFiles
    /\ frame = NoFrame

CallAlignment ==
    /\ op = "compute_alignment_score"
    /\ ret = Pending
    /\ ret' = [results |-> compute_alignment_score(args.allocated_sector_country,
                                                   args.prism_scores)]
    /\ UNCHANGED <<op, args, data_cache, frame>>

SpecAlignment == InitAlignment /\ [][CallAlignment]_vars

AlignmentDone == op = "compute_alignment_score" /\ ret # Pending

(* the score the table holds for allocation i: that of the first row with  *)
(* its (country, sector); defined when HasScore(i)                         *)
ScoreIndex(i) ==
    {j \in 1..Len(args.prism_scores) :
        /\ args.prism_scores[j].country = args.allocated_sector_country[i].country
        /\ args.prism_scores[j].sector = args.allocated_sector_country[i].sector}

HasScore(i) == ScoreIndex(i) # {}

ScoreOf(i) ==
    args.prism_scores[CHOOSE j \in ScoreIndex(i) : \A m \in ScoreIndex(i) : j <= m].prism_score

(* C6: the tier of a scored holding is a function of its score: >= 70      *)
(* Overweight, 55 <= score < 70 Neutral, < 55 Underweight; one tier for    *)
(* every score in [0, 100], 70 and 55 belonging to the higher tier.        *)
C6_TierThresholds ==
    AlignmentDone =>
        \A i \in 1..Len(args.allocated_sector_country) :
            (HasScore(i) /\ InScoreRange(ScoreOf(i))) =>
                LET sc == ScoreOf(i)
                    tier == ret.results[i].tier
                IN  /\ tier \in {"Overweight", "Neutral", "Underweight"}
                    /\ tier = "Overweight" <=> FGe(sc, Num(70))
                    /\ tier = "Neutral" <=> (FGe(sc, Num(55)) /\ FLt(sc, Num(70)))
                    /\ tier = "Underweight" <=> FLt(sc, Num(55))

(* holdings scored exactly 70 and exactly 55 got the higher tiers          *)
C6_Witness ==
    /\ AlignmentDone
    /\ Len(args.allocated_sector_country) = 2
    /\ HasScore(1) /\ ScoreOf(1) = Num(70) /\ ret.results[1].tier = "Overweight"
    /\ HasScore(2) /\ ScoreOf(2) = Num(55) /\ ret.results[2].tier = "Neutral"

(* what a result table must be when a scored allocation is to report      *)
(* Reported(score) for the score its (country, sector) has in the table    *)
AlignmentContract(Reported(_)) ==
    AlignmentDone =>
        /\ Len(ret.results) = Len(args.allocated_sector_country)
        /\ \A i \in 1..Len(args.allocated_sector_country) :
               LET a == args.allocated_sector_country[i]
                   r == ret.results[i]
               IN  /\ r.ticker = a.ticker /\ r.country = a.country
                   /\ r.sector = a.sector /\ r.amount = a.amount
                   /\ HasScore(i) =>
                          /\ r.prism_score = Reported(ScoreOf(i))
                          /\ r.alignment_score = Reported(ScoreOf(i))
                          /\ r.tier = IF FGe(ScoreOf(i), Num(70)) THEN "Overweight"
                                      ELSE IF FGe(ScoreOf(i), Num(55)) THEN "Neutral"
                                      ELSE "Underweight"
                   /\ ~HasScore(i) =>
                          /\ r.prism_score = None
                          /\ r.alignment_score = Num(50)
                          /\ r.tier = "Not Scored"
                   /\ r.tier = "Not Scored" <=> ~HasScore(i)

---------------------------------------------------------------------------
(* prism_data_loader.compute_portfolio_weighted_score                      *)

(* lines 147-153: the left merge on (country, sector) gives one row per    *)
(* matching score row, or one row without score when none matches;         *)
(* fillna(50) then replaces every missing score.  Each merged row is       *)
(* <<amount, prism_score>>.                                                *)
MergedRowsOf(row, prism_df) ==
    LET match == MatchRows(prism_df, row.country, row.sector)
        filled(score) == IF IsNum(score) THEN score ELSE Num(50)
    IN  IF match = <<>> THEN << <<row.amount, Num(50)>> >>
        ELSE [j \in 1..Len(match) |-> <<row.amount, filled(match[j].prism_score)>>]

RECURSIVE MergeLeft(_, _)
MergeLeft(portfolio_df, prism_df) ==
    IF portfolio_df = <<>> THEN <<>>
    ELSE MergedRowsOf(Head(portfolio_df), prism_df)
             \o MergeLeft(Tail(portfolio_df), prism_df)

(* lines 154-156: without a score table every row scores 50                *)
Merged(portfolio_df, prism_df) ==
    IF prism_df # None THEN MergeLeft(portfolio_df, prism_df)
    ELSE [i \in 1..Len(portfolio_df) |-> <<portfolio_df[i].amount, Num(50)>>]

(* line 135                                                                *)
TotalValue(portfolio_df) == SeqSumSkipNA(Column(portfolio_df, "amount"))

(* line 137                                                                *)
ZeroTotal_never(total_value) == FALSE

ZeroTotal(total_value) == FEq(total_value, Num(0))

(* line 159                                                                *)
WeightedScore(portfolio_df, prism_df) ==
    LET merged == Merged(portfolio_df, prism_df)
    IN  FDiv(SeqSumSkipNA([i \in 1..Len(merged) |-> FMul(merged[i][2], merged[i][1])]),
             TotalValue(portfolio_df))

(* lines 162-170                                                           *)
PortfolioTier(weighted_score) ==
    IF FGe(weighted_score, Num(65)) THEN "Overweight"
    ELSE IF FGe(weighted_score, Num(45)) THEN "Neutral"
    ELSE "Underweight"

(* lines 164, 167, 170                                                     *)
PortfolioInterpretation(tier) ==
    CASE tier = "Overweight" -> "Portfolio is positioned for growth"
      [] tier = "Neutral" -> "Portfolio is balanced"
      [] OTHER -> "Portfolio is positioned conservatively"

(* lines 135-177; divided: the division of line 159 was performed          *)
compute_portfolio_weighted_score(portfolio_df, prism_df) ==
    IF ZeroTotal(TotalValue(portfolio_df))
    THEN [weighted_score |-> Num(50), tier |-> "Neutral",
          interpretation |-> "No allocations", total_allocation |-> Num(0),
          divided |-> FALSE]
    ELSE The({[weighted_score |-> RoundTo(weighted_score, 10),
               tier |-> PortfolioTier(weighted_score),
               interpretation |-> PortfolioInterpretation(PortfolioTier(weighted_score)),
               total_allocation |-> TotalValue(portfolio_df),
               divided |-> TRUE] :
                 weighted_score \in {WeightedScore(portfolio_df, prism_df)}})

(* The portfolios and score tables of the model.                           *)
LoaderHoldings == {<<"MSFT", "US", "Information Technology">>, <<"EWZ", "BR", "Diversified">>}

LoaderAmounts == {Num(0), Num(1000), Num(3000)}

LoaderRows ==
    {[ticker |-> h[1], country |-> h[2], sector |-> h[3], amount |-> a] :
        h \in LoaderHoldings, a \in LoaderAmounts}

LoaderPortfolios == UNION {[1..len -> LoaderRows] : len \in 0..MaxAllocs}

LoaderScores == {Rat(4496, 100), Rat(6237, 100), Num(65), Num(80), NaN}

LoaderScoreRows ==
    {[country |-> "US", sector |-> "Information Technology", prism_score |-> sc] :
        sc \in LoaderScores}

LoaderScoreTables == {None} \cup UNION {[1..len -> LoaderScoreRows] : len \in 0..MaxRows}

InitPortfolio ==
    /\ op = "compute_portfolio_weighted_score"
    /\ args \in [portfolio_df : LoaderPortfolios, prism_df : LoaderScoreTables]
    /\ ret = Pending
    /\ data_cache = NoFiles
    /\ frame = NoFrame

CallPortfolio ==
    /\ op = "compute_portfolio_weighted_score"
    /\ ret = Pending
    /\ ret' = compute_portfolio_weighted_score(args.portfolio_df, args.prism_df)
    /\ UNCHANGED <<op, args, data_cache, frame>>

SpecPortfolio == InitPortfolio /\ [][CallPortfolio]_vars

PortfolioDone == op = "compute_portfolio_weighted_score" /\ ret # Pending

(* the portfolio is one allocation of a non-zero amount whose (country,    *)
(* sector) has exactly one row, with a score, in the score table           *)
SingleScoredAllocation ==
    /\ Len(args.portfolio_df) = 1
    /\ args.portfolio_df[1].amount.n # 0
    /\ args.prism_df # None
    /\ Len(MatchRows(args.prism_df, args.portfolio_df[1].country,
                     args.portfolio_df[1].sector)) = 1
    /\ IsNum(MatchRows(args.prism_df, args.portfolio_df[1].country,
                       args.portfolio_df[1].sector)[1].prism_score)

SingleScore ==
    MatchRows(args.prism_df, args.portfolio_df[1].country,
              args.portfolio_df[1].sector)[1].prism_score

(* C16: for a portfolio of a single allocation of any non-zero amount A    *)
(* whose (country, sector) has score S in the score table, the reported    *)
(* weighted_score is exactly S, whatever A is.                             *)
C16_SingleAllocationScore ==
    (PortfolioDone /\ SingleScoredAllocation) => ret.weighted_score = SingleScore

(* C17: when the amounts of the portfolio total zero (an empty portfolio   *)
(* included) the result is weighted_score 50, tier "Neutral",              *)
(* total_allocation 0, and no division was performed.                      *)
C17_ZeroTotalDegenerate ==
    (PortfolioDone /\ TotalValue(args.portfolio_df).n = 0) =>
        /\ ret.weighted_score = Num(50)
        /\ ret.tier = "Neutral"
        /\ ret.total_allocation = Num(0)
        /\ ~ret.divided

(* a portfolio of two allocations of amount 0 over a table that scores one *)
(* of them 80 got the degenerate result                                    *)
C17_Witness ==
    /\ PortfolioDone
    /\ Len(args.portfolio_df) = 2
    /\ args.prism_df # None
    /\ Len(args.prism_df) = 1
    /\ args.prism_df[1].prism_score = Num(80)
    /\ args.portfolio_df[1].country = "US"
    /\ ret.weighted_score = Num(50)
    /\ ret.tier = "Neutral"
    /\ ~ret.divided

(* the scores the weighted sum was taken over, 50 standing in for an       *)
(* unmatched holding                                                       *)
ScoresUsed ==
    {Merged(args.portfolio_df, args.prism_df)[i][2] :
        i \in 1..Len(Merged(args.portfolio_df, args.prism_df))}

(* every score of the table is a number in [0, 100]                        *)
TableScoresInRange ==
    args.prism_df # None =>
        \A j \in 1..Len(args.prism_df) : InScoreRange(args.prism_df[j].prism_score)

(* C28: for non-negative amounts with a positive total and table scores in *)
(* [0, 100], duplicate (country, sector) rows or not, the weighted_score   *)
(* lies in [0, 100] and between the smallest and the largest score used    *)
(* (as reported, to one decimal).                                          *)
C28_WeightedScoreBounded ==
    (/\ PortfolioDone
     /\ \A i \in 1..Len(args.portfolio_df) : FGe(args.portfolio_df[i].amount, Num(0))
     /\ FGt(TotalValue(args.portfolio_df), Num(0))
     /\ TableScoresInRange) =>
        /\ FGe(ret.weighted_score, Num(0)) /\ FLe(ret.weighted_score, Num(100))
        /\ \E lo \in ScoresUsed : FLe(RoundTo(lo, 10), ret.weighted_score)
        /\ \E hi \in ScoresUsed : FGe(RoundTo(hi, 10), ret.weighted_score)

(* C29: the tier of a result is the tier of the weighted_score of the same *)
(* result under the thresholds 65 (Overweight) and 45 (Neutral).           *)
C29_TierOfReportedScore ==
    PortfolioDone =>
        ret.tier = (IF FGe(ret.weighted_score, Num(65)) THEN "Overweight"
                    ELSE IF FGe(ret.weighted_score, Num(45)) THEN "Neutral"
                    ELSE "Underweight")

---------------------------------------------------------------------------
(* prism_allocation.backsolve_parameters                                   *)

(* lines 13-100: the module's allocation table, in the order of the dict   *)
ALLOCATIONS ==
    <<
      [ticker |-> "MSFT", amount |-> Num(20000), country |-> "US",
       sector |-> "Information Technology"],
      [ticker |-> "NVDA", amount |-> Num(20000), country |-> "US",
       sector |-> "Information Technology"],
      [ticker |-> "AAPL", amount |-> Num(15000), country |-> "US",
       sector |-> "Information Technology"],
      [ticker |-> "META", amount |-> Num(10000), country |-> "US",
       sector |-> "Communication Services"],
      [ticker |-> "GOOG", amount |-> Num(10000), country |-> "US",
       sector |-> "Communication Services"],
      [ticker |-> "AVGO", amount |-> Num(10000), country |-> "US",
       sector |-> "Information Technology"],
      [ticker |-> "COST", amount |-> Num(10000), country |-> "US",
       sector |-> "Consumer Staples"],
      [ticker |-> "LLY", amount |-> Num(10000), country |-> "US",
       sector |-> "Health Care"],
      [ticker |-> "JPM", amount |-> Num(10000), country |-> "US",
       sector |-> "Financials"],
      [ticker |-> "TSM", amount |-> Num(10000), country |-> "TW",
       sector |-> "Information Technology"],
      [ticker |-> "PLTR", amount |-> Num(20000), country |-> "US",
       sector |-> "Information Technology"],
      [ticker |-> "RGTI", amount |-> Num(7500), country |-> "US",
       sector |-> "Information Technology"],
      [ticker |-> "QQQ", amount |-> Num(30000), country |-> "US",
       sector |-> "Information Technology"],
      [ticker |-> "VTI", amount |-> Num(20000), country |-> "US",
       sector |-> "Diversified"],
      [ticker |-> "VTV", amount |-> Num(12500), country |-> "US",
       sector |-> "Diversified"],
      [ticker |-> "SAP", amount |-> Num(5000), country |-> "DE",
       sector |-> "Information Technology"],
      [ticker |-> "ALV.DE", amount |-> Num(4000), country |-> "DE",
       sector |-> "Financials"],
      [ticker |-> "RHM.DE", amount |-> Num(3750), country |-> "DE",
       sector |-> "Industrials"],
      [ticker |-> "MC.PA", amount |-> Num(4000), country |-> "FR",
       sector |-> "Consumer Discretionary"],
      [ticker |-> "TTE.PA", amount |-> Num(3000), country |-> "FR",
       sector |-> "Energy"],
      [ticker |-> "AI.PA", amount |-> Num(3625), country |-> "FR",
       sector |-> "Materials"],
      [ticker |-> "8035.T", amount |-> Num(8000), country |-> "JP",
       sector |-> "Information Technology"],
      [ticker |-> "6758.T", amount |-> Num(6500), country |-> "JP",
       sector |-> "Consumer Discretionary"],
      [ticker |-> "9983.T", amount |-> Num(5000), country |-> "JP",
       sector |-> "Consumer Discretionary"],
      [ticker |-> "8058.T", amount |-> Num(4000), country |-> "JP",
       sector |-> "Industrials"],
      [ticker |-> "5803.T", amount |-> Rat(6125, 2), country |-> "JP",
       sector |-> "Information Technology"],
      [ticker |-> "GMG.AX", amount |-> Num(3000), country |-> "AU",
       sector |-> "Real Estate"],
      [ticker |-> "PME.AX", amount |-> Num(2000), country |-> "AU",
       sector |-> "Health Care"],
      [ticker |-> "NWH.AX", amount |-> Num(1750), country |-> "AU",
       sector |-> "Industrials"],
      [ticker |-> "ASB.AX", amount |-> Num(1750), country |-> "AU",
       sector |-> "Industrials"],
      [ticker |-> "EWU", amount |-> Num(21250), country |-> "GB",
       sector |-> "Diversified"],
      [ticker |-> "EWC", amount |-> Num(10625), country |-> "CA",
       sector |-> "Diversified"],
      [ticker |-> "FEZ", amount |-> Rat(31875, 2), country |-> "EU",
       sector |-> "Diversified"],
      [ticker |-> "TCEHY", amount |-> Num(5000), country |-> "CN",
       sector |-> "Communication Services"],
      [ticker |-> "BABA", amount |-> Num(5000), country |-> "CN",
       sector |-> "Consumer Discretionary"],
      [ticker |-> "JD", amount |-> Num(4000), country |-> "CN",
       sector |-> "Consumer Discretionary"],
      [ticker |-> "PDD", amount |-> Num(5000), country |-> "CN",
       sector |-> "Consumer Discretionary"],
      [ticker |-> "1211.HK", amount |-> Num(3500), country |-> "CN",
       sector |-> "Consumer Discretionary"],
      [ticker |-> "INCO.JK", amount |-> Num(2000), country |-> "ID",
       sector |-> "Materials"],
      [ticker |-> "TLKM.JK", amount |-> Num(2000), country |-> "ID",
       sector |-> "Communication Services"],
      [ticker |-> "ARTO.JK", amount |-> Num(2000), country |-> "ID",
       sector |-> "Financials"],
      [ticker |-> "KLBF.JK", amount |-> Num(1500), country |-> "ID",
       sector |-> "Health Care"],
      [ticker |-> "JSMR.JK", amount |-> Rat(4125, 2), country |-> "ID",
       sector |-> "Industrials"],
      [ticker |-> "005930.KS", amount |-> Num(2000), country |-> "KR",
       sector |-> "Information Technology"],
      [ticker |-> "000660.KS", amount |-> Num(1500), country |-> "KR",
       sector |-> "Information Technology"],
      [ticker |-> "005380.KS", amount |-> Num(1000), country |-> "KR",
       sector |-> "Consumer Discretionary"],
      [ticker |-> "035420.KS", amount |-> Num(1000), country |-> "KR",
       sector |-> "Communication Services"],
      [ticker |-> "035720.KS", amount |-> Num(875), country |-> "KR",
       sector |-> "Communication Services"],
      [ticker |-> "INDA", amount |-> Num(19125), country |-> "IN",
       sector |-> "Diversified"],
      [ticker |-> "EWZ", amount |-> Num(12750), country |-> "BR",
       sector |-> "Diversified"],
      [ticker |-> "EWW", amount |-> Num(6375), country |-> "MX",
       sector |-> "Diversified"],
      [ticker |-> "EWT", amount |-> Num(6375), country |-> "TW",
       sector |-> "Diversified"],
      [ticker |-> "EEM", amount |-> Rat(6375, 2), country |-> "EM",
       sector |-> "Diversified"]
    >>

(* lines 103-113                                                           *)
parse_allocations == ALLOCATIONS

(* the cells of a column that are numbers                                  *)
Numbers(xs) == SelectSeq(xs, IsNum)

(* the k-th smallest (k in 1..Len(ys)) of a sequence of numbers            *)
OrderStat(ys, k) ==
    CHOOSE v \in {ys[i] : i \in 1..Len(ys)} :
        /\ Cardinality({i \in 1..Len(ys) : FLt(ys[i], v)}) < k
        /\ k <= Cardinality({i \in 1..Len(ys) : FLe(ys[i], v)})

(* Series.median(): of the cells that are numbers; NaN when there is none  *)
Median(xs) ==
    LET ys == Numbers(xs)
        n == Len(ys)
    IN  IF n = 0 THEN NaN
        ELSE IF n % 2 = 1 THEN OrderStat(ys, (n + 1) \div 2)
        ELSE FDiv(FAdd(OrderStat(ys, n \div 2), OrderStat(ys, n \div 2 + 1)), Num(2))

(* Series.quantile(q), linear interpolation between the order statistics   *)
(* around position (n - 1) * q; NaN when no cell is a number               *)
Quantile(xs, q) ==
    LET ys == Numbers(xs)
        n == Len(ys)
        lo == ((n - 1) * q.n) \div q.d
        frac == FSub(Rat((n - 1) * q.n, q.d), Num(lo))
        lower == OrderStat(ys, lo + 1)
        upper == OrderStat(ys, IF lo + 2 <= n THEN lo + 2 ELSE n)
    IN  IF n = 0 THEN NaN
        ELSE FAdd(lower, FMul(frac, FSub(upper, lower)))

(* lines 247-251: the prism_score column of the left merge on (country,    *)
(* sector): one cell per matching score row, one NaN cell when none        *)
RECURSIVE MergedScores(_, _)
MergedScores(allocated_cs, prism_scores) ==
    IF allocated_cs = <<>> THEN <<>>
    ELSE LET match == MatchRows(prism_scores, Head(allocated_cs).country,
                                Head(allocated_cs).sector)
         IN  (IF match = <<>> THEN <<NaN>>
              ELSE [j \in 1..Len(match) |-> match[j].prism_score])
                 \o MergedScores(Tail(allocated_cs), prism_scores)

(* line 244                                                                *)
NotDiversified(allocated_cs) ==
    SelectSeq(allocated_cs, LAMBDA row : row.sector # "Diversified")

(* lines 243-252                                                           *)
CurrentMedian(allocated_tickers, prism_scores) ==
    Median(MergedScores(NotDiversified(parse_allocations), prism_scores))

(* line 255                                                                *)
TargetScore(prism_scores, target_percentile) ==
    Quantile(Column(prism_scores, "prism_score"), target_percentile)

(* line 257                                                                *)
MeetsTarget_strict(current_median, target_score) == FGt(current_median, target_score)

MeetsTarget(current_median, target_score) == FGe(current_median, target_score)

(* lines 270-275                                                           *)
suggested_weights ==
    [structural |-> Rat(35, 100), fundamentals |-> Rat(33, 100),
     behavior |-> Rat(17, 100), topdown |-> Rat(15, 100)]

(* lines 257-286: the returned dict for the locals given                   *)
BacksolveResult(current_median, target_score) ==
    IF MeetsTarget(current_median, target_score)
    THEN [adjustments_needed |-> FALSE,
          current_median |-> Round2(current_median),
          target_score |-> Round2(target_score),
          message |-> "No parameter adjustments needed."]
    ELSE [adjustments_needed |-> TRUE,
          current_median |-> Round2(current_median),
          target_score |-> Round2(target_score),
          gap |-> Round2(FSub(target_score, current_median)),
          suggested_weights |-> suggested_weights,
          message |-> "Consider adjusting PRISM weights."]

backsolve_parameters(allocated_tickers, prism_scores, target_percentile) ==
    The({BacksolveResult(current_median, target_score) :
            current_median \in {CurrentMedian(allocated_tickers, prism_scores)},
            target_score \in {TargetScore(prism_scores, target_percentile)}})

(* The calls of the model.                                                 *)
BacksolveTickerLists == {<<>>, <<"JPM">>, <<"MSFT", "NVDA">>, <<"JPM", "VTI">>}

BacksolveKeys ==
    {<<"US", "Information Technology">>, <<"US", "Financials">>, <<"BR", "Energy">>}

BacksolveScores == {Num(40), Num(60), Num(80), NaN}

BacksolveRows ==
    {[country |-> key[1], sector |-> key[2], prism_score |-> sc] :
        key \in BacksolveKeys, sc \in BacksolveScores}

BacksolveTables == UNION {[1..len -> BacksolveRows] : len \in 0..MaxRows}

InitBacksolve ==
    /\ op = "backsolve_parameters"
    /\ args \in [allocated_tickers : BacksolveTickerLists,
                 prism_scores : BacksolveTables,
                 target_percentile : {Rat(7, 10), Rat(1, 2)}]
    /\ ret = Pending
    /\ data_cache = NoFiles
    /\ frame = NoFrame

CallBacksolve ==
    /\ op = "backsolve_parameters"
    /\ ret = Pending
    /\ ret' = [result |-> backsolve_parameters(args.allocated_tickers, args.prism_scores,
                                               args.target_percentile),
               locals |-> [current_median |->
                               CurrentMedian(args.allocated_tickers, args.prism_scores),
                           target_score |->
                               TargetScore(args.prism_scores, args.target_percentile)]]
    /\ UNCHANGED <<op, args, data_cache, frame>>

SpecBacksolve == InitBacksolve /\ [][CallBacksolve]_vars

BacksolveDone == op = "backsolve_parameters" /\ ret # Pending

(* C18: the call reports one of two outcomes.  When the median it computed *)
(* is >= the requested percentile of all scores of the table, the result   *)
(* has adjustments_needed false and carries neither a gap nor suggested    *)
(* weights; otherwise it has adjustments_needed true, gap = target_score - *)
(* current_median (reported rounded to two decimals) and the suggested     *)
(* weight configuration.                                                   *)
C18_BacksolveOutcomes ==
    BacksolveDone =>
        LET median == ret.locals.current_median
            target == ret.locals.target_score
            result == ret.result
        IN  /\ result.adjustments_needed \in BOOLEAN
            /\ result.current_median = Round2(median)
            /\ result.target_score = Round2(target)
            /\ FGe(median, target) =>
                   /\ result.adjustments_needed = FALSE
                   /\ "gap" \notin DOMAIN result
                   /\ "suggested_weights" \notin DOMAIN result
            /\ ~FGe(median, target) =>
                   /\ result.adjustments_needed = TRUE
                   /\ result.gap = Round2(FSub(target, median))
                   /\ result.suggested_weights = suggested_weights

(* a table whose only score is the median and the target at once (80):     *)
(* meeting the target exactly needs no adjustment                          *)
C18_Witness ==
    /\ BacksolveDone
    /\ Len(args.prism_scores) = 1
    /\ ret.locals.current_median = Num(80)
    /\ ret.locals.target_score = Num(80)
    /\ ret.result.adjustments_needed = FALSE
    /\ "suggested_weights" \notin DOMAIN ret.result

C30_GapNeedsDefinedMedian ==
    BacksolveDone =>
        /\ ret.result.adjustments_needed =>
               /\ IsNum(ret.result.current_median)
               /\ IsNum(ret.result.target_score)
               /\ FGt(ret.result.gap, Num(0))
        /\ ~IsNum(ret.locals.current_median) =>
               /\ "gap" \notin DOMAIN ret.result
               /\ "suggested_weights" \notin DOMAIN ret.result

(* the allocations the caller names: the rows of its tickers               *)
CallerAllocations(allocated_tickers) ==
    SelectSeq(parse_allocations,
              LAMBDA row : \E i \in 1..Len(allocated_tickers) :
                               allocated_tickers[i] = row.ticker)

(* C19: the median compared against the target is that of the allocations  *)
(* the caller supplied (allocated_tickers, Diversified holdings excluded); *)
(* the module's allocation table does not influence it.                    *)
C19_MedianOfCallerAllocations ==
    BacksolveDone =>
        ret.locals.current_median =
            Median(MergedScores(NotDiversified(CallerAllocations(args.allocated_tickers)),
                                args.prism_scores))

---------------------------------------------------------------------------
(* prism_sector_constituents.get_sector_constituents                       *)

(* lines 76-127, the entries for the pairs of the model                    *)
CURATED_CONSTITUENTS ==
    [US |-> [InformationTechnology |-> <<"MSFT", "AAPL", "NVDA", "AVGO", "PLTR">>],
     AU |-> [Industrials |-> <<"NWH.AX", "ASB.AX">>],
     KR |-> [InformationTechnology |-> <<"005930.KS", "000660.KS", "035420.KS">>]]

(* the (country_code, sector) pairs asked for: curated lists of 3 and 2    *)
(* tickers, a sector missing for a curated country, an unknown country.    *)
(* Sector names are written without their spaces.                          *)
ConstituentPairs ==
    {<<"KR", "InformationTechnology">>, <<"AU", "Industrials">>,
     <<"US", "Energy">>, <<"BR", "Energy">>}

MaxTopN == 3

(* line 138: constituents_{country_code}_{sector}.json                     *)
CacheFile(country_code, sector) == <<"constituents", country_code, sector>>

(* line 146                                                                *)
Curated(country_code, sector) ==
    /\ country_code \in DOMAIN CURATED_CONSTITUENTS
    /\ sector \in DOMAIN CURATED_CONSTITUENTS[country_code]

(* line 147: list[:top_n] for top_n >= 0                                   *)
Prefix(list, top_n) == SubSeq(list, 1, IF top_n < Len(list) THEN top_n ELSE Len(list))

(* the file the call writes (line 148), if any                             *)
WrittenFile(country_code, sector, top_n, files) ==
    IF CacheFile(country_code, sector) \in DOMAIN files THEN files
    ELSE IF Curated(country_code, sector)
         THEN [f \in DOMAIN files \cup {CacheFile(country_code, sector)} |->
                  IF f = CacheFile(country_code, sector)
                  THEN Prefix(CURATED_CONSTITUENTS[country_code][sector], top_n)
                  ELSE files[f]]
    ELSE files

(* lines 141-154: the list returned                                        *)
get_sector_constituents(country_code, sector, top_n, files) ==
    IF CacheFile(country_code, sector) \in DOMAIN files
    THEN files[CacheFile(country_code, sector)]
    ELSE IF Curated(country_code, sector)
         THEN Prefix(CURATED_CONSTITUENTS[country_code][sector], top_n)
    ELSE <<>>

ConstituentCalls ==
    {[country_code |-> pair[1], sector |-> pair[2], top_n |-> n] :
        pair \in ConstituentPairs, n \in 1..MaxTopN}

InitConstituents ==
    /\ op = "get_sector_constituents"
    /\ args \in ConstituentCalls
    /\ ret = Pending
    /\ data_cache = NoFiles
    /\ frame = NoFrame

(* the body of the call                                                    *)
CallConstituents ==
    /\ op = "get_sector_constituents"
    /\ ret = Pending
    /\ ret' = [tickers |-> get_sector_constituents(args.country_code, args.sector,
                                                    args.top_n, data_cache)]
    /\ data_cache' = WrittenFile(args.country_code, args.sector, args.top_n, data_cache)
    /\ UNCHANGED <<op, args, frame>>

(* a later call with the same cache directory                              *)
CallAgain ==
    /\ op = "get_sector_constituents"
    /\ ret # Pending
    /\ args' \in ConstituentCalls
    /\ ret' = Pending
    /\ UNCHANGED <<op, data_cache, frame>>

SpecConstituents == InitConstituents /\ [][CallConstituents \/ CallAgain]_vars

ConstituentsDone == op = "get_sector_constituents" /\ ret # Pending

(* C20: whatever calls came before with the same cache directory, the call *)
(* returns at most top_n tickers; for a pair without curated constituents  *)
(* it returns the empty list and the directory holds no file for the pair. *)
C20_AtMostTopN ==
    ConstituentsDone =>
        /\ Len(ret.tickers) <= args.top_n
        /\ ~Curated(args.country_code, args.sector) =>
               /\ ret.tickers = <<>>
               /\ CacheFile(args.country_code, args.sector) \notin DOMAIN data_cache

---------------------------------------------------------------------------
(* data.get_spy_and_etf                                                    *)

(* what the price provider does when asked for a history (lines 14-15)     *)
ProviderOutcomes == {"data", "empty", "none", "raises"}

(* data.fetch_price_data, lines 14-19: a frame, or an exception            *)
fetch_price_data(outcome) ==
    CASE outcome = "data" -> [k |-> "frame"]
      [] outcome \in {"empty", "none"} -> Raised("RuntimeError")
      [] OTHER -> Raised("Exception")

(* line 80                                                                 *)
max_attempts == 5

(* line 85: the loop has another attempt after this one                    *)
MoreAttempts_inclusive(attempt) == attempt <= max_attempts

MoreAttempts(attempt) == attempt < max_attempts

Unbound == [k |-> "unbound"]

(* fetches counts the calls of fetch_price_data, failed the attempts that  *)
(* ended in the except clause of line 108                                  *)
InitFetch ==
    /\ op = "get_spy_and_etf"
    /\ args \in [etf : {"XLK", "XLE", "SPY"}, period : {"2y", "1y"}]
    /\ ret = Pending
    /\ data_cache = NoFiles
    /\ frame = [pc |-> "fetch_etf", attempt |-> 1, etf_df |-> Unbound,
                spy_df |-> Unbound, last_exc |-> "None", fetches |-> 0, failed |-> 0]

(* lines 89-92                                                             *)
FetchEtf ==
    /\ op = "get_spy_and_etf"
    /\ frame.pc = "fetch_etf"
    /\ \E outcome \in ProviderOutcomes :
           LET r == fetch_price_data(outcome)
           IN  frame' = IF HasRaised(r)
                        THEN [frame EXCEPT !.pc = "except", !.last_exc = "RuntimeError",
                                           !.fetches = @ + 1]
                        ELSE [frame EXCEPT !.pc = "fetch_spy", !.etf_df = r,
                                           !.fetches = @ + 1]
    /\ UNCHANGED <<op, args, ret, data_cache>>

(* lines 95-106                                                            *)
FetchSpy ==
    /\ op = "get_spy_and_etf"
    /\ frame.pc = "fetch_spy"
    /\ \E outcome \in ProviderOutcomes :
           LET r == fetch_price_data(outcome)
           IN  IF HasRaised(r) \/ frame.etf_df = None \/ r = None
               THEN /\ frame' = [frame EXCEPT !.pc = "except", !.last_exc = "RuntimeError",
                                              !.fetches = @ + 1]
                    /\ ret' = ret
               ELSE /\ frame' = [frame EXCEPT !.pc = "done", !.spy_df = r,
                                              !.fetches = @ + 1]
                    /\ ret' = [k |-> "returned", etf_df |-> frame.etf_df, spy_df |-> r]
    /\ UNCHANGED <<op, args, data_cache>>

(* lines 108-127: back off and go round the loop, or give up               *)
FetchExcept ==
    /\ op = "get_spy_and_etf"
    /\ frame.pc = "except"
    /\ IF MoreAttempts(frame.attempt)
       THEN /\ frame' = [frame EXCEPT !.pc = "fetch_etf", !.attempt = @ + 1,
                                      !.failed = @ + 1]
            /\ ret' = ret
       ELSE /\ frame' = [frame EXCEPT !.pc = "done", !.failed = @ + 1]
            /\ ret' = Raised("RuntimeError")
    /\ UNCHANGED <<op, args, data_cache>>

NextFetch == FetchEtf \/ FetchSpy \/ FetchExcept

(* every step of the call returns: the provider answers or fails, the      *)
(* sleeps end                                                              *)
SpecFetch == InitFetch /\ [][NextFetch]_vars /\ WF_vars(NextFetch)

FetchDone == op = "get_spy_and_etf" /\ ret # Pending

FetchSafe ==
    op = "get_spy_and_etf" =>
        /\ frame.attempt \in 1..5
        /\ frame.failed <= 5
        /\ frame.fetches <= 2 * 5
        /\ ret # Pending =>
               /\ frame.pc = "done"
               /\ ~HasRaised(ret) =>
                      /\ ret.etf_df = [k |-> "frame"]
                      /\ ret.spy_df = [k |-> "frame"]
                      /\ frame.failed = frame.attempt - 1
               /\ HasRaised(ret) => ret.exc = "RuntimeError" /\ frame.failed = 5

(* C21: get_spy_and_etf always ends, in one of two ways: it returns the    *)
(* (etf, spy) pair of the first attempt in which both fetches succeeded,   *)
(* or it raises RuntimeError once 5 attempts have failed; it makes at most *)
(* 5 attempts, returns no pair with a None frame, and does nothing more    *)
(* once it has returned or raised.                                         *)
C21_FetchTerminates ==
    /\ []FetchSafe
    /\ [][FetchDone => UNCHANGED vars]_vars
    /\ <>FetchDone

(* the pair was returned by the third attempt, after two that failed       *)
C21_Witness ==
    /\ FetchDone
    /\ ~HasRaised(ret)
    /\ frame.attempt = 3
    /\ frame.failed = 2
    /\ ret.etf_df = [k |-> "frame"]

---------------------------------------------------------------------------
(* The calculators together                                                *)

Init ==
    \/ InitNormalize
    \/ InitFirm
    \/ InitSector
    \/ InitStructural
    \/ InitBehavior
    \/ InitTopdown
    \/ InitPrism
    \/ InitAlignment
    \/ InitPortfolio
    \/ InitBacksolve
    \/ InitConstituents

Next ==
    \/ CallNormalize
    \/ CallFirm
    \/ CallSector
    \/ CallStructural
    \/ CallBehavior
    \/ CallTopdown
    \/ CallPrism
    \/ CallAlignment
    \/ CallPortfolio
    \/ CallBacksolve
    \/ CallConstituents
    \/ CallAgain

Spec == Init /\ [][Next]_vars

(* the score calculators of the PRISM pipeline                             *)
InitScores ==
    \/ InitFirm
    \/ InitSector
    \/ InitStructural
    \/ InitBehavior
    \/ InitTopdown
    \/ InitPrism

NextScores ==
    \/ CallFirm
    \/ CallSector
    \/ CallStructural
    \/ CallBehavior
    \/ CallTopdown
    \/ CallPrism

SpecScores == InitScores /\ [][NextScores]_vars

Returned == ret # Pending /\ ~HasRaised(ret)

(* C2: every score a calculator of the pipeline returns lies in [0, 100],  *)
(* whatever is missing (None, NaN, absent) or out of band in its inputs:   *)
(* the firm score, the sector fundamentals, the structural, market         *)
(* behavior and top-down scores, and every score entry of the record       *)
(* compute_prism_score returns.                                            *)
C2_ScoresInRange ==
    Returned =>
        /\ op = "compute_firm_score" => InScoreRange(ret.firm_score)
        /\ op = "compute_sector_fundamentals" =>
               /\ InScoreRange(ret.score)
               /\ \A i \in 1..Len(args) : InScoreRange(ret.firm_score[i])
        /\ op = "compute_structural_score" =>
               /\ InScoreRange(ret.result.structural_score)
               /\ InScoreRange(ret.result.porter_score)
               /\ InScoreRange(ret.result.lifecycle_score)
        /\ op = "compute_market_behavior_score" =>
               InScoreRange(ret.market_behavior_score)
        /\ op = "compute_topdown_score" =>
               /\ InScoreRange(ret.topdown_score)
               /\ InScoreRange(ret.growth_score)
               /\ InScoreRange(ret.gdp_pc_score)
               /\ InScoreRange(ret.swot_score)
        /\ op = "compute_prism_score" =>
               /\ InScoreRange(ret.prism_score)
               /\ InScoreRange(ret.structural_score)
               /\ InScoreRange(ret.fundamentals_score)
               /\ InScoreRange(ret.behavior_score)
               /\ InScoreRange(ret.topdown_score)

(* a pipeline run over out-of-band and missing inputs (HHI 9000, GDP per   *)
(* capita 200000, a 200% return, a firm with no market cap) has returned   *)
C2_Witness ==
    /\ PrismReturned
    /\ args.kwargs.hhi = Num(9000)
    /\ args.country_meta # None
    /\ args.country_meta.gdp_per_capita = Num(200000)
    /\ args.prices.k = "stats"
    /\ args.prices.ret_12m = Num(2)
    /\ Len(args.firms_df) = 2
    /\ args.firms_df[1].market_cap = NaN
    /\ args.firms_df[2].market_cap = Num(3000)
    /\ InScoreRange(ret.prism_score)

====
